---- MODULE Spec2Model ----
(***************************************************************************)
(* Whole-slide-image annotation viewer: the segmentation ("SAM") request   *)
(* pipeline of js/core/viewer-core.js and js/modules/sam-api.js, the       *)
(* coordinate transforms of js/modules/coordinate-transforms.js and the    *)
(* tag-indexed annotation lists of js/modules/annotation-manager.js.       *)
(*                                                                         *)
(* The browser runs one event loop.  An action of this module is one task  *)
(* of that loop together with the microtasks it triggers: a drawing-UI     *)
(* event handler, a click handler, a timer callback, or the continuation   *)
(* of an async function after an awaited network promise settles.          *)
(*                                                                         *)
(* Numbers are integers.  Every viewport of the model has a whole          *)
(* downsample and a size that is a multiple of the container size, so the  *)
(* divisions of the transforms are exact or floor exactly as Math.floor    *)
(* does; floating-point rounding error is not modelled.                    *)
(*                                                                         *)
(* Specifications: Spec runs the handlers of the viewer and of the service *)
(* at the home viewport, SpecLive the same with the timers firing;         *)
(* SpecConcurrent runs pipelines in flight together while the user pans;   *)
(* SpecStore runs the operations on the annotation lists with no service   *)
(* connected; SpecViewer adds the visibility icons, the folders and the    *)
(* tabs; SpecToolState switches between the model-assisted tools while     *)
(* pipelines fail; SpecSelect applies the candidate selection,             *)
(* SpecRequest the request construction, SpecTransform the transforms,     *)
(* SpecClassify the classification and SpecCodec the geometry codec and    *)
(* the export to inputs drawn from bounded sets.                           *)
(***************************************************************************)
EXTENDS Integers, Sequences, FiniteSets, TLC

\* Number of annotations the drawing UI creates in one run of Spec.
MaxAnnotations == 1

\* Number of annotations the drawing UI creates in one run of
\* SpecConcurrent, whose pipelines can be in flight together.
MaxInFlight == 2

\* Number of updateAnnotation events in one run.
MaxUpdates == 1

\* Pending maintainSAMToolState timers that are told apart.
MaxTimers == 1

\* Number of candidate features in a response of SpecSelect.
MaxCandidates == 3

Abs(n) == IF n < 0 THEN 0 - n ELSE n

Min(a, b) == IF a < b THEN a ELSE b

Max(a, b) == IF a > b THEN a ELSE b

SeqToSet(s) == {s[i] : i \in 1..Len(s)}

(***************************************************************************)
(* Script load order.  transformWSIToCanvasCoordinates and                 *)
(* transformCanvasToWSICoordinates are declared as global functions both   *)
(* in sam-api.js and in coordinate-transforms.js; the declaration of the   *)
(* script loaded last is the one processSAMPrompt calls.  The page that    *)
(* orders the scripts is not part of the sources, so both orders are       *)
(* builds of the program.  createSVGPathFromWSICoordinates is declared     *)
(* both in sam-api.js and in annotation-manager.js, with the same          *)
(* consequence.                                                            *)
(***************************************************************************)
TransformScripts == {"sam-api-last", "coordinate-transforms-last"}

CodecScripts == {"sam-api-last", "annotation-manager-last"}

ScriptOrders ==
    [transforms : TransformScripts, codec : CodecScripts]

(***************************************************************************)
(* Tools (toolMapping).                                                    *)
(***************************************************************************)
ManualTools ==
    {"drag", "circle", "freehand", "rect", "polygon", "quadrilateral",
     "point", "scribble"}

SamTools == {"sam-drag", "sam-point", "sam-rect"}

\* tool.startsWith('sam-')
ToolStartsWithSam(tool) == tool \in SamTools

(***************************************************************************)
(* Annotation ids.  An id is <<prefix, n>>: the drawing UI assigns         *)
(* "#"-prefixed ids, convertSAMResultToAnnotation builds 'sam-' ids.       *)
(***************************************************************************)
UserId(n) == <<"#", n>>

SamId(n) == <<"sam-", n>>

\* annotation.id && annotation.id.startsWith('sam-')
IdStartsWithSam(id) == id[1] = "sam-"

(***************************************************************************)
(* The live viewport of the rendering surface, as the viewer reports it:   *)
(* top-left corner and size of the visible region in image pixels (after   *)
(* Math.round), 1.0 / viewport.getZoom(true), and the container size.      *)
(***************************************************************************)
Viewport(x, y, ds, cw, ch) ==
    [x |-> x, y |-> y, width |-> cw * ds, height |-> ch * ds,
     downsample |-> ds, containerX |-> cw, containerY |-> ch]

\* getCurrentViewportBounds: the bounds object holds x, y, width and height;
\* the downsample it computes from the zoom is not put in the object.
getCurrentViewportBounds(vp) ==
    [x |-> vp.x, y |-> vp.y, width |-> vp.width, height |-> vp.height,
     hasDownsample |-> FALSE, downsample |-> 0]

\* getCurrentImageData, the object it returns when the capture succeeds.
getCurrentImageData(vp) ==
    [imageData |-> <<"jpeg", vp.x, vp.y, vp.width, vp.height>>,
     width |-> vp.containerX, height |-> vp.containerY,
     viewportBounds |-> getCurrentViewportBounds(vp)]

NoImageInfo ==
    [imageData |-> <<"none", 0, 0, 0, 0>>, width |-> 0, height |-> 0,
     viewportBounds |-> [x |-> 0, y |-> 0, width |-> 0, height |-> 0,
                         hasDownsample |-> FALSE, downsample |-> 0]]

(***************************************************************************)
(* Selectors and extracted coordinates.  A FragmentSelector value          *)
(* 'xywh=pixel:x,y,w,h' is the record of its four numbers; the regular     *)
(* expression of extractCoordinatesFromAnnotation matches digits and dots  *)
(* only, so a value with a negative number does not match.                 *)
(***************************************************************************)
FragmentSelector(x, y, w, h) ==
    [type |-> "FragmentSelector", x |-> x, y |-> y, w |-> w, h |-> h]

OtherSelector == [type |-> "Other", x |-> 0, y |-> 0, w |-> 0, h |-> 0]

NoCoords ==
    [type |-> "none", x |-> 0, y |-> 0, hasSize |-> FALSE,
     width |-> 0, height |-> 0]

Coords(type, x, y, hasSize, w, h) ==
    [type |-> type, x |-> x, y |-> y, hasSize |-> hasSize,
     width |-> w, height |-> h]

\* An SvgSelector of the drawing UI: the first element of its value and
\* the numbers of the attributes the decoder reads (cx, cy of a circle; x,
\* y, width, height of a rect).
SvgShape(element, x, y, w, h) ==
    [type |-> "SvgSelector", element |-> element, x |-> x, y |-> y,
     w |-> w, h |-> h]

\* An annotation with neither target.selector nor selector.
WithoutSelector(id, body) == [id |-> id, body |-> body]

\* Width of the slide in image pixels: viewer.viewport
\* .viewportToImageCoordinates multiplies a viewport coordinate by it.
ContentWidth == 8

\* convertNormalizedToWSICoordinates (sam-api.js); Math.round leaves the
\* whole numbers of the model as they are.
convertNormalizedToWSICoordinates(normalizedX, normalizedY) ==
    [x |-> normalizedX * ContentWidth, y |-> normalizedY * ContentWidth]

\* The shape branch of the declaration of annotation-manager.js: the
\* attributes as they are written.  A polygon is selected by the query but
\* has no branch.
ShapeCoordsRaw(s) ==
    IF s.element = "circle"
    THEN Coords("point", s.x, s.y, FALSE, 0, 0)
    ELSE IF s.element = "rect"
         THEN Coords("box", s.x, s.y, TRUE, s.w, s.h)
         ELSE NoCoords

\* The shape branch of the declaration of sam-api.js: the attributes are
\* taken for viewport coordinates and converted to image pixels.
ShapeCoordsConverted(s) ==
    IF s.element = "circle"
    THEN LET wsiCoords == convertNormalizedToWSICoordinates(s.x, s.y)
         IN  Coords("point", wsiCoords.x, wsiCoords.y, FALSE, 0, 0)
    ELSE IF s.element = "rect"
         THEN LET topLeftWSI == convertNormalizedToWSICoordinates(s.x, s.y)
                  bottomRightWSI ==
                      convertNormalizedToWSICoordinates(s.x + s.w, s.y + s.h)
              IN  Coords("box", topLeftWSI.x, topLeftWSI.y, TRUE,
                         bottomRightWSI.x - topLeftWSI.x,
                         bottomRightWSI.y - topLeftWSI.y)
         ELSE NoCoords

\* A decoder that takes a fragment with one zero side for a point.
PointWhenOneSideIsZero(order, annotation) ==
    IF "selector" \notin DOMAIN annotation
    THEN NoCoords
    ELSE LET s == annotation.selector IN
         IF s.type = "FragmentSelector"
            /\ s.x >= 0 /\ s.y >= 0 /\ s.w >= 0 /\ s.h >= 0
         THEN IF s.w = 0 \/ s.h = 0
              THEN Coords("point", s.x, s.y, TRUE, s.w, s.h)
              ELSE Coords("box", s.x, s.y, TRUE, s.w, s.h)
         ELSE NoCoords

\* extractCoordinatesFromAnnotation, declared in sam-api.js and in
\* annotation-manager.js; NoCoords stands for the null it returns.  The two
\* declarations differ in the shape branch only.
extractCoordinatesFromAnnotation(order, annotation) ==
    IF "selector" \notin DOMAIN annotation
    THEN NoCoords
    ELSE LET s == annotation.selector IN
         IF s.type = "SvgSelector"
         THEN IF s.element \in {"circle", "rect", "polygon"}
              THEN IF order.codec = "sam-api-last"
                   THEN ShapeCoordsConverted(s)
                   ELSE ShapeCoordsRaw(s)
              ELSE NoCoords
         ELSE IF s.type = "FragmentSelector"
         THEN IF s.x >= 0 /\ s.y >= 0 /\ s.w >= 0 /\ s.h >= 0
              THEN IF s.w = 0 /\ s.h = 0
                   THEN Coords("point", s.x, s.y, TRUE, s.w, s.h)
                   ELSE Coords("box", s.x, s.y, TRUE, s.w, s.h)
              ELSE NoCoords
         ELSE NoCoords

(***************************************************************************)
(* Forward transform, sam-api.js.                                          *)
(***************************************************************************)
\* wsiToViewportCoords: floor(((wsi - left) / width) * viewportWidth)
wsiToViewportCoords(wsiPoint, wsiRegion, viewportShape) ==
    [x |-> ((wsiPoint.x - wsiRegion.left) * viewportShape.width)
            \div wsiRegion.width,
     y |-> ((wsiPoint.y - wsiRegion.top) * viewportShape.height)
            \div wsiRegion.height]

WsiRegionOf(imageInfo) ==
    [left |-> imageInfo.viewportBounds.x, top |-> imageInfo.viewportBounds.y,
     width |-> imageInfo.viewportBounds.width,
     height |-> imageInfo.viewportBounds.height]

ViewportShapeOf(imageInfo) ==
    [width |-> imageInfo.width, height |-> imageInfo.height]

CanvasCoords(x, y, hasSize, w, h) ==
    [isNull |-> FALSE, x |-> x, y |-> y, hasSize |-> hasSize,
     width |-> w, height |-> h]

NullCanvasCoords ==
    [isNull |-> TRUE, x |-> 0, y |-> 0, hasSize |-> FALSE,
     width |-> 0, height |-> 0]

\* transformWSIToCanvasCoordinates as declared in sam-api.js
transformWSIToCanvasCoordinatesSamApi(coords, imageInfo) ==
    LET region == WsiRegionOf(imageInfo)
        shape == ViewportShapeOf(imageInfo)
    IN  IF coords.type = "point"
        THEN LET c == wsiToViewportCoords([x |-> coords.x, y |-> coords.y],
                                          region, shape)
             IN  CanvasCoords(c.x, c.y, FALSE, 0, 0)
        ELSE IF coords.type = "box"
        THEN LET topLeft == wsiToViewportCoords(
                                [x |-> coords.x, y |-> coords.y], region, shape)
                 bottomRight == wsiToViewportCoords(
                                [x |-> coords.x + coords.width,
                                 y |-> coords.y + coords.height], region, shape)
             IN  CanvasCoords(topLeft.x, topLeft.y, TRUE,
                              bottomRight.x - topLeft.x,
                              bottomRight.y - topLeft.y)
        ELSE NullCanvasCoords

(***************************************************************************)
(* Forward transform, coordinate-transforms.js.  It reads the descriptor   *)
(* of window.currentImageInfo when that global is set, and returns its     *)
(* input unchanged when the descriptor holds no downsample.                *)
(***************************************************************************)
\* const currentImageInfo = window.currentImageInfo || imageInfo
CurrentImageInfo(imageInfo, windowInfo, hasWindowInfo) ==
    IF hasWindowInfo THEN windowInfo ELSE imageInfo

transformCoordinatesToCanvasQuPathStyle(coords, imageInfo, windowInfo, hasWindowInfo) ==
    LET viewportBounds ==
            CurrentImageInfo(imageInfo, windowInfo, hasWindowInfo).viewportBounds
        unchanged == CanvasCoords(coords.x, coords.y, coords.hasSize,
                                  coords.width, coords.height)
    IN  IF ~viewportBounds.hasDownsample \/ viewportBounds.downsample = 0
        THEN unchanged
        ELSE LET downsample == viewportBounds.downsample
                 tx == (coords.x - viewportBounds.x) \div downsample
                 ty == (coords.y - viewportBounds.y) \div downsample
                 cx == Max(0, Min(imageInfo.width - 1, tx))
                 cy == Max(0, Min(imageInfo.height - 1, ty))
             IN  IF coords.hasSize
                 THEN CanvasCoords(cx, cy, TRUE,
                        Max(1, Min(imageInfo.width - cx,
                                   coords.width \div downsample)),
                        Max(1, Min(imageInfo.height - cy,
                                   coords.height \div downsample)))
                 ELSE CanvasCoords(cx, cy, FALSE, 0, 0)

\* The declaration of transformWSIToCanvasCoordinates that is live.
transformWSIToCanvasCoordinates(order, coords, imageInfo, windowInfo, hasWindowInfo) ==
    IF order.transforms = "sam-api-last"
    THEN transformWSIToCanvasCoordinatesSamApi(coords, imageInfo)
    ELSE transformCoordinatesToCanvasQuPathStyle(coords, imageInfo,
                                                 windowInfo, hasWindowInfo)

(***************************************************************************)
(* Inverse transform.  A ring is a sequence of points <<x, y>>; the        *)
(* coordinates of a geometry are a sequence of rings.                      *)
(***************************************************************************)
NoRings == [isNull |-> TRUE, rings |-> <<>>]

Rings(rs) == [isNull |-> FALSE, rings |-> rs]

\* viewportToWsiCoords: left + vpX * (1 / viewportWidth) * wsiWidth
viewportToWsiCoords(viewportCoords, wsiRegion, viewportShape) ==
    [i \in 1..Len(viewportCoords) |->
        <<wsiRegion.left
            + (viewportCoords[i][1] * wsiRegion.width) \div viewportShape.width,
          wsiRegion.top
            + (viewportCoords[i][2] * wsiRegion.height) \div viewportShape.height>>]

\* transformCanvasToWSICoordinates as declared in sam-api.js: the first
\* ring only, with the descriptor of the imageInfo object it is given.
transformCanvasToWSICoordinatesSamApi(coordinates, imageInfo) ==
    IF Len(coordinates) = 0
    THEN NoRings
    ELSE Rings(<<viewportToWsiCoords(coordinates[1], WsiRegionOf(imageInfo),
                                     ViewportShapeOf(imageInfo))>>)

\* transformCanvasCoordinatesToWSIQuPathStyle: every ring, with the
\* descriptor of window.currentImageInfo when that global is set; null
\* when the descriptor holds no downsample.
transformCanvasCoordinatesToWSIQuPathStyle(canvasCoordinates, imageInfo, windowInfo, hasWindowInfo) ==
    LET viewportBounds ==
            CurrentImageInfo(imageInfo, windowInfo, hasWindowInfo).viewportBounds
        downsample == viewportBounds.downsample
        transformCoordinate(coord) ==
            <<coord[1] * downsample + viewportBounds.x,
              coord[2] * downsample + viewportBounds.y>>
    IN  IF ~viewportBounds.hasDownsample \/ downsample = 0
        THEN NoRings
        ELSE Rings([r \in 1..Len(canvasCoordinates) |->
                      [i \in 1..Len(canvasCoordinates[r]) |->
                          transformCoordinate(canvasCoordinates[r][i])]])

\* The descriptor the live inverse transform reads: imageInfo.viewportBounds
\* in sam-api.js, currentImageInfo.viewportBounds in coordinate-transforms.js.
InverseDescriptor(order, imageInfo, windowInfo, hasWindowInfo) ==
    IF order.transforms = "sam-api-last"
    THEN imageInfo.viewportBounds
    ELSE CurrentImageInfo(imageInfo, windowInfo, hasWindowInfo).viewportBounds

\* An inverse transform that scales and forgets the offset of the visible
\* region.
InverseWithoutOffset(order, coordinates, imageInfo, windowInfo, hasWindowInfo) ==
    LET scaleX == imageInfo.viewportBounds.width \div imageInfo.width
        scaleY == imageInfo.viewportBounds.height \div imageInfo.height
    IN  Rings([r \in 1..Len(coordinates) |->
                 [i \in 1..Len(coordinates[r]) |->
                     <<coordinates[r][i][1] * scaleX,
                       coordinates[r][i][2] * scaleY>>]])

\* The declaration of transformCanvasToWSICoordinates that is live.
transformCanvasToWSICoordinates(order, coordinates, imageInfo, windowInfo, hasWindowInfo) ==
    IF order.transforms = "sam-api-last"
    THEN transformCanvasToWSICoordinatesSamApi(coordinates, imageInfo)
    ELSE transformCanvasCoordinatesToWSIQuPathStyle(coordinates, imageInfo,
                                                    windowInfo, hasWindowInfo)

(***************************************************************************)
(* Candidate selection.                                                    *)
(***************************************************************************)
\* The shoelace sum of calculatePolygonArea.  The value is the area in
\* half units (twice Math.abs(area) / 2), which keeps it a whole number.
RECURSIVE ShoelaceSum(_, _)
ShoelaceSum(coordinates, i) ==
    IF i > Len(coordinates)
    THEN 0
    ELSE LET j == (i % Len(coordinates)) + 1
         IN  coordinates[i][1] * coordinates[j][2]
               - coordinates[j][1] * coordinates[i][2]
               + ShoelaceSum(coordinates, i + 1)

calculatePolygonArea(coordinates) ==
    IF Len(coordinates) < 3 THEN 0 ELSE Abs(ShoelaceSum(coordinates, 1))

\* A feature of a response.  hasGeometry: geometry and geometry.coordinates
\* are present; hasProperties: properties is present.
Feature(rings, quality) ==
    [hasGeometry |-> TRUE, hasProperties |-> TRUE, coordinates |-> rings,
     quality |-> quality]

\* A feature of an object response that has no geometry.
FeatureWithoutGeometry(quality) ==
    [hasGeometry |-> FALSE, hasProperties |-> TRUE, coordinates |-> <<>>,
     quality |-> quality]

\* feature.calculatedArea: the area of the first ring, Infinity without one.
CalculatedArea(feature) ==
    IF feature.hasGeometry /\ Len(feature.coordinates) > 0
    THEN [infinite |-> FALSE, area |-> calculatePolygonArea(feature.coordinates[1])]
    ELSE [infinite |-> TRUE, area |-> 0]

\* a.calculatedArea - b.calculatedArea < 0 (Infinity - Infinity is NaN,
\* which sort takes as 0)
AreaLess(a, b) ==
    /\ ~CalculatedArea(a).infinite
    /\ \/ CalculatedArea(b).infinite
       \/ CalculatedArea(a).area < CalculatedArea(b).area

\* Insert f into a sorted sequence after every element it is not less than.
RECURSIVE InsertSorted(_, _)
InsertSorted(sorted, f) ==
    IF sorted = <<>>
    THEN <<f>>
    ELSE IF AreaLess(f, sorted[Len(sorted)])
         THEN Append(InsertSorted(SubSeq(sorted, 1, Len(sorted) - 1), f),
                     sorted[Len(sorted)])
         ELSE Append(sorted, f)

\* features.sort((a, b) => a.calculatedArea - b.calculatedArea), a stable
\* sort by ascending area.
RECURSIVE SortByArea(_)
SortByArea(features) ==
    IF features = <<>>
    THEN <<>>
    ELSE InsertSorted(SortByArea(SubSeq(features, 1, Len(features) - 1)),
                      features[Len(features)])

\* The first candidate of the response, without the sort.
FirstFeature(features) == features[1]

\* const bestFeature = features[0] after the sort
SelectBestFeature(features) == SortByArea(features)[1]

(***************************************************************************)
(* Annotations, bodies and classification.                                 *)
(***************************************************************************)
BodyItem(purpose, value) ==
    [type |-> "TextualBody", purpose |-> purpose, value |-> value]

Annotation(id, selector, body) ==
    [id |-> id, selector |-> selector, body |-> body]

\* value.trim()
Trim(value) ==
    CASE value = " Tumor " -> "Tumor"
      [] value = "  " -> ""
      [] OTHER -> value

\* value.toLowerCase().includes('sam') || ...includes('segment anything')
IncludesSamKeyword(value) ==
    value \in {"SAM mask", "Sample", "segment anything"}

\* The explicit tags of getAnnotationTags: the trimmed values of the body
\* items with purpose 'tagging' and a non-blank value, in body order.
RECURSIVE ExplicitTags(_)
ExplicitTags(body) ==
    IF body = <<>>
    THEN <<>>
    ELSE LET item == body[Len(body)]
             rest == ExplicitTags(SubSeq(body, 1, Len(body) - 1))
         IN  IF Trim(item.value) # "" /\ item.purpose = "tagging"
             THEN Append(rest, Trim(item.value))
             ELSE rest

\* annotation.body && Array.isArray(annotation.body): the items of the
\* body, none when the annotation has no body.
BodyOf(annotation) ==
    IF "body" \in DOMAIN annotation THEN annotation.body ELSE <<>>

\* A detection that looks at the active tool only.
SamByToolOnly(annotation, tool) == ToolStartsWithSam(tool)

\* isAnnotationFromSAMEnhanced: id prefix, samGenerated, samTool, the
\* global currentTool, a keyword in a body value.  No code of the program
\* sets samGenerated or samTool on an annotation.
isAnnotationFromSAMEnhanced(annotation, tool) ==
    \/ IdStartsWithSam(annotation.id)
    \/ "samGenerated" \in DOMAIN annotation /\ annotation.samGenerated = TRUE
    \/ "samTool" \in DOMAIN annotation /\ ToolStartsWithSam(annotation.samTool)
    \/ ToolStartsWithSam(tool)
    \/ \E i \in 1..Len(BodyOf(annotation)) :
          IncludesSamKeyword(BodyOf(annotation)[i].value)

\* A classification that never reads the body for tags.
DefaultTagOnly(annotation, tool) ==
    IF isAnnotationFromSAMEnhanced(annotation, tool)
    THEN <<"SAM">>
    ELSE <<"Manual">>

\* A classification whose default tag is the one of the error path.
OthersWhenNoMatch(annotation, tool) ==
    IF ExplicitTags(BodyOf(annotation)) # <<>>
    THEN ExplicitTags(BodyOf(annotation))
    ELSE IF isAnnotationFromSAMEnhanced(annotation, tool)
         THEN <<"SAM">>
         ELSE <<"Others">>

\* getAnnotationTags; tool is the global currentTool at the time of the call.
getAnnotationTags(annotation, tool) ==
    IF ExplicitTags(BodyOf(annotation)) # <<>>
    THEN ExplicitTags(BodyOf(annotation))
    ELSE IF isAnnotationFromSAMEnhanced(annotation, tool)
         THEN <<"SAM">>
         ELSE <<"Manual">>

TagNames == {"SAM", "Manual", "Tumor", "Stroma"}

\* addAnnotationToList: push the annotation on the list of each of its tags.
RECURSIVE PushToTags(_, _, _)
PushToTags(store, tags, annotation) ==
    IF tags = <<>>
    THEN store
    ELSE LET before == PushToTags(store, SubSeq(tags, 1, Len(tags) - 1),
                                  annotation)
             tag == tags[Len(tags)]
         IN  [before EXCEPT ![tag] = Append(@, annotation)]

addAnnotationToList(store, annotation, tool) ==
    PushToTags(store, getAnnotationTags(annotation, tool), annotation)

\* annotations[tag].filter(ann => ann.id !== id)
FilterOutId(list, id) == SelectSeq(list, LAMBDA ann : ann.id # id)

\* The annotation objects held by the lists of the store.
StoreEntries(store) == UNION {SeqToSet(store[t]) : t \in DOMAIN store}

\* A removal that takes only the first entry with the id off each list of
\* the tags.
RECURSIVE DropFirstWithId(_, _)
DropFirstWithId(list, id) ==
    IF list = <<>>
    THEN <<>>
    ELSE IF Head(list).id = id
         THEN Tail(list)
         ELSE <<Head(list)>> \o DropFirstWithId(Tail(list), id)

DropFirstFromTags(store, tags, id) ==
    [t \in DOMAIN store |->
        IF t \in SeqToSet(tags) THEN DropFirstWithId(store[t], id) ELSE store[t]]

\* tags.forEach(tag => { if (annotations[tag]) annotations[tag] =
\* annotations[tag].filter(ann => ann.id !== annotation.id) })
FilterFromTags(store, tags, id) ==
    [t \in DOMAIN store |->
        IF t \in SeqToSet(tags) THEN FilterOutId(store[t], id) ELSE store[t]]

\* removeAnnotationFromList: the lists of the tags the annotation has at
\* the time of the call lose every entry with its id.
removeAnnotationFromList(store, annotation, tool) ==
    FilterFromTags(store, getAnnotationTags(annotation, tool), annotation.id)

\* deleteAnnotation, its effect on the store.
deleteAnnotation(store, annotation, tool) ==
    FilterFromTags(store, getAnnotationTags(annotation, tool), annotation.id)

\* annotations[tag].findIndex(ann => ann.id === id); 0 stands for -1
RECURSIVE FindIndex(_, _, _)
FindIndex(list, id, i) ==
    IF i > Len(list)
    THEN 0
    ELSE IF list[i].id = id THEN i ELSE FindIndex(list, id, i + 1)

\* updateAnnotationInList: in the list of each tag the annotation has now,
\* the first entry with its id is replaced; a list without such an entry
\* is left alone and nothing is raised.
updateAnnotationInList(store, annotation, tool) ==
    LET tags == SeqToSet(getAnnotationTags(annotation, tool)) IN
    [t \in DOMAIN store |->
        LET index == FindIndex(store[t], annotation.id, 1) IN
        IF t \in tags /\ index # 0
        THEN [store[t] EXCEPT ![index] = annotation]
        ELSE store[t]]

\* anno.addAnnotation: the layer holds one shape per id.
LayerAdd(layer, annotation) ==
    {a \in layer : a.id # annotation.id} \cup {annotation}

\* anno.removeAnnotation(id)
LayerRemove(layer, id) == {a \in layer : a.id # id}

(***************************************************************************)
(* Geometry codec: createSVGPathFromWSICoordinates.  The value of the      *)
(* selector is the element it encodes and the text of its data:            *)
(* '<svg><polygon points="x0,y0 x1,y1 ..." /></svg>' in sam-api.js, the    *)
(* sequence of its 'x,y' pairs; '<svg><path d="M x0,y0 L x1,y1 ... Z">     *)
(* </path></svg>' in annotation-manager.js, the sequence of its commands,  *)
(* each with the text between its letter and its first number; the empty   *)
(* string for no ring or an empty ring.                                    *)
(***************************************************************************)
SvgSelector(element, data) ==
    [type |-> "SvgSelector", element |-> element, data |-> data]

\* 'M x,y' or ' L x,y': the letter, the space after it and the two numbers
\* joined by a comma.
PathCommand(cmd, x, y) == [cmd |-> cmd, sep |-> " ", x |-> x, y |-> y]

\* ' Z'
ClosePath == [cmd |-> "Z"]

\* The path data of annotation-manager.js: M for the first coordinate, L
\* for each further one in ring order, then Z.
PathData(firstRing) ==
    [i \in 1..(Len(firstRing) + 1) |->
        IF i = 1
        THEN PathCommand("M", firstRing[1][1], firstRing[1][2])
        ELSE IF i <= Len(firstRing)
             THEN PathCommand("L", firstRing[i][1], firstRing[i][2])
             ELSE ClosePath]

\* The points attribute of sam-api.js: one 'x,y' pair per coordinate, in
\* order, separated by spaces.
PolygonPoints(coords) ==
    [i \in 1..Len(coords) |-> [x |-> coords[i][1], y |-> coords[i][2]]]

createSVGPathFromWSICoordinates(order, wsiCoordinates) ==
    IF Len(wsiCoordinates) = 0 \/ Len(wsiCoordinates[1]) = 0
    THEN SvgSelector("", <<>>)
    ELSE IF order.codec = "sam-api-last"
         THEN SvgSelector("polygon", PolygonPoints(wsiCoordinates[1]))
         ELSE SvgSelector("path", PathData(wsiCoordinates[1]))

(***************************************************************************)
(* Export: convertAnnotationToExportFormat (annotation-manager.js).        *)
(***************************************************************************)
\* One match of pathRegex, /[ML]\\s*([0-9.]+)[,\\s]+([0-9.]+)/g.  In the
\* regular-expression literal '\\' is a backslash character and 's*' any
\* number of letters s: the text between the command letter and the first
\* number has to begin with a backslash.  The numbers are digits and dots.
PathRegexMatches(command) ==
    /\ command.cmd \in {"M", "L"}
    /\ command.sep \in {"\\", "\\s", "\\ss"}
    /\ command.x >= 0
    /\ command.y >= 0

\* The points the loop over the matches collects from a selector value, in
\* the order of the text.  The value of a polygon element holds no M or L.
RECURSIVE MatchedPoints(_)
MatchedPoints(data) ==
    IF data = <<>>
    THEN <<>>
    ELSE LET command == data[Len(data)]
             rest == MatchedPoints(SubSeq(data, 1, Len(data) - 1))
         IN  IF "cmd" \in DOMAIN command /\ command.cmd # "Z"
                /\ PathRegexMatches(command)
             THEN Append(rest, <<command.x, command.y, 0>>)
             ELSE rest

\* description.includes('SAM')
IncludesSAM(description) == description \in {"SAM", "SAM mask"}

NoExport == [isNull |-> TRUE]

\* convertAnnotationToExportFormat; NoExport stands for the null it
\* returns.  _version (the time of the export) is left out.
convertAnnotationToExportFormat(annotation) ==
    IF "selector" \notin DOMAIN annotation
    THEN NoExport
    ELSE LET selector == annotation.selector
             coordinates ==
                 IF selector.type = "SvgSelector" /\ selector.element # ""
                 THEN IF "data" \in DOMAIN selector
                      THEN MatchedPoints(selector.data)
                      ELSE <<>>
                 ELSE <<>>
             description ==
                 IF Len(BodyOf(annotation)) > 0
                    /\ BodyOf(annotation)[1].value # ""
                 THEN BodyOf(annotation)[1].value
                 ELSE "Annotation"
         IN  [isNull |-> FALSE,
              _accessLevel |-> 2,
              _id |-> annotation.id,
              _modelType |-> "annotation",
              description |-> description,
              elements |->
                <<[lineColor |-> IF IncludesSAM(description)
                                 THEN "rgb(0,255,255)" ELSE "rgb(0,0,0)",
                   id |-> annotation.id,
                   type |-> "polyline",
                   closed |-> TRUE,
                   points |-> coordinates]>>]

(***************************************************************************)
(* Responses of the segmentation service and their conversion.             *)
(***************************************************************************)
\* A parsed response body: a JSON null, an array of masks, an object with
\* a features array, or any other value.
SamResult(format, features) == [format |-> format, features |-> features]

\* The features convertSAMResultToAnnotation reads from a body: an array
\* keeps the masks that have a geometry and properties.
FeaturesOf(samResult) ==
    IF samResult.format = "array"
    THEN SelectSeq(samResult.features,
                   LAMBDA mask : mask.hasGeometry /\ mask.hasProperties)
    ELSE IF samResult.format = "object"
         THEN samResult.features
         ELSE <<>>

NoAnnotation == [id |-> <<"", 0>>, selector |-> OtherSelector, body |-> <<>>]

\* convertSAMResultToAnnotation; NoAnnotation stands for the null it
\* returns.  n numbers the 'sam-' id it builds.
convertSAMResultToAnnotation(order, samResult, n, imageInfo, windowInfo, hasWindowInfo) ==
    LET features == FeaturesOf(samResult) IN
    IF features = <<>>
    THEN NoAnnotation
    ELSE LET bestFeature == SelectBestFeature(features) IN
         IF ~bestFeature.hasGeometry
         THEN NoAnnotation
         ELSE LET wsi == transformCanvasToWSICoordinates(order,
                             bestFeature.coordinates, imageInfo,
                             windowInfo, hasWindowInfo)
              IN  IF wsi.isNull
                  THEN NoAnnotation
                  ELSE Annotation(SamId(n),
                         createSVGPathFromWSICoordinates(order, wsi.rings),
                         <<BodyItem("", "Annotation")>>)

(***************************************************************************)
(* The request payload of processSAMPrompt.                                *)
(***************************************************************************)
\* prompt: "point" (point_coords and point_labels), "bbox" or "none";
\* defined is FALSE when an entry of the prompt is not a number (a sum
\* with an undefined width or height).
SamPayload(b64img, prompt, values, defined) ==
    [type |-> "vit_h", b64img |-> b64img, multimask_output |-> FALSE,
     prompt |-> prompt, values |-> values, defined |-> defined]

BuildSamPayload(tool, canvasCoords, imageInfo) ==
    IF tool = "sam-point"
    THEN SamPayload(imageInfo.imageData, "point",
                    <<canvasCoords.x, canvasCoords.y>>, TRUE)
    ELSE IF tool = "sam-rect"
         THEN IF canvasCoords.hasSize
              THEN SamPayload(imageInfo.imageData, "bbox",
                     <<canvasCoords.x, canvasCoords.y,
                       canvasCoords.x + canvasCoords.width,
                       canvasCoords.y + canvasCoords.height>>, TRUE)
              ELSE SamPayload(imageInfo.imageData, "bbox",
                     <<canvasCoords.x, canvasCoords.y, 0, 0>>, FALSE)
         ELSE SamPayload(imageInfo.imageData, "none", <<>>, TRUE)

NoPayload == SamPayload(<<"none", 0, 0, 0, 0>>, "none", <<>>, TRUE)

\* processSAMPrompt from the extraction of the coordinates to the payload;
\* NoPayload when no coordinates are extracted (no request is made).
PromptPayload(order, tool, annotation, imageInfo) ==
    LET coords == extractCoordinatesFromAnnotation(order, annotation)
        canvasCoords == transformWSIToCanvasCoordinates(order, coords,
                            imageInfo, imageInfo, TRUE)
    IN  IF coords.type = "none"
        THEN NoPayload
        ELSE BuildSamPayload(tool, canvasCoords, imageInfo)

(***************************************************************************)
(* State.                                                                  *)
(***************************************************************************)
VARIABLES
    scriptOrder,      \* which duplicate declarations are live
    currentTool,      \* viewer-core.js: var currentTool
    drawingEnabled,   \* the annotation layer: anno.setDrawingEnabled
    drawingTool,      \* the annotation layer: anno.setDrawingTool
    maintainTimers,   \* pending setTimeout(maintainSAMToolState) callbacks
    samConnected,     \* sam-api.js: var samConnected
    samLiveMode,      \* sam-api.js: var samLiveMode
    samStatus,        \* the status indicator written by updateSAMStatus
    probe,            \* "pending" while connectToSAM awaits its fetch,
                      \* "text" while it awaits response.text(),
                      \* "alert" while its alert dialog is open
    viewport,         \* the live viewport of the rendering surface
    windowInfo,       \* the pipeline whose imageInfo object is
                      \* window.currentImageInfo; 0 when it is not set
    pipe,             \* per created annotation: its pipeline
    annoLayer,        \* the annotations the viewer displays
    annotations,      \* annotation-manager.js: var annotations (tag -> list)
    created,          \* number of createAnnotation events so far
    updates,          \* number of updateAnnotation events so far
    hiddenIcons,      \* ids whose list item has its visibility icon 'hidden'
    deletedInUI,      \* ids of the annotations deleted in the drawing UI
    input,            \* the argument of a function applied on its own
    output            \* its result

vars ==
    <<scriptOrder, currentTool, drawingEnabled, drawingTool, maintainTimers,
      samConnected, samLiveMode, samStatus, probe, viewport, windowInfo,
      pipe, annoLayer, annotations, created, updates, hiddenIcons,
      deletedInUI, input, output>>

\* The tools of the tool buttons that the model selects.
ToolChoices == {"drag", "rect", "sam-drag", "sam-point", "sam-rect"}

\* The viewport the viewer opens with, and the viewports the user pans and
\* zooms between.
HomeViewport == Viewport(0, 0, 2, 4, 4)

LiveViewports == {HomeViewport, Viewport(4, 2, 1, 4, 4)}

\* What the drawing tools produce: the point tool a fragment of no extent,
\* the rect tool a fragment with an extent.  A shape drawn left of or above
\* the image has a negative coordinate.
PointSelectors == {FragmentSelector(5, 3, 0, 0), FragmentSelector(-1, 2, 0, 0)}

RectSelectors == {FragmentSelector(4, 2, 2, 2), FragmentSelector(1, 1, 2, 0)}

DrawnSelectors(tool) == IF tool = "point" THEN PointSelectors ELSE RectSelectors

\* Bodies of created annotations, and bodies the editor saves on update.
CreatedBodies == {<<>>, <<BodyItem("tagging", "Tumor")>>}

UpdatedBodies == {<<BodyItem("commenting", "Sample")>>}

\* Response polygons, in capture pixels.
Triangle == <<<<0, 0>>, <<2, 0>>, <<0, 2>>>>

Square == <<<<0, 0>>, <<3, 0>>, <<3, 3>>, <<0, 3>>>>

\* Parsed response bodies.
SamResults ==
    {SamResult("array", <<>>),
     SamResult("array", <<Feature(<<Square>>, 9), Feature(<<Triangle>>, 5)>>),
     SamResult("object", <<Feature(<<Square>>, 5)>>)}

NoPipe ==
    [pc |-> "none", annotation |-> NoAnnotation, imageInfo |-> NoImageInfo,
     snapshot |-> NoImageInfo, sent |-> FALSE, payload |-> NoPayload,
     outcome |-> "", samResult |-> SamResult("null", <<>>),
     samAnnotation |-> NoAnnotation]

Pipes == 1..Max(MaxAnnotations, MaxInFlight)

NoInput == [kind |-> "none"]

NoOutput == [kind |-> "none"]

\* The program after construction: the page has loaded its scripts in one
\* of the orders, the viewer shows the home viewport, the tab defaults have
\* selected the drag tool, no service is connected.
LoadedPage ==
    /\ currentTool = "drag"
    /\ drawingEnabled = FALSE
    /\ drawingTool = "rect"
    /\ maintainTimers = 0
    /\ samConnected = FALSE
    /\ samLiveMode = TRUE
    /\ samStatus = "disconnected"
    /\ probe = "idle"
    /\ viewport = HomeViewport
    /\ windowInfo = 0
    /\ pipe = [p \in Pipes |-> NoPipe]
    /\ annoLayer = {}
    /\ annotations = [t \in TagNames |-> <<>>]
    /\ created = 0
    /\ updates = 0
    /\ hiddenIcons = {}
    /\ deletedInUI = {}

ProgramInit ==
    /\ scriptOrder \in ScriptOrders
    /\ LoadedPage

Init ==
    /\ ProgramInit
    /\ input = NoInput
    /\ output = NoOutput

\* window.currentImageInfo, when set
WindowImageInfo == IF windowInfo = 0 THEN NoImageInfo ELSE pipe[windowInfo].imageInfo

\* setTimeout(() => maintainSAMToolState(), ...)
ScheduleMaintain(n) == Min(MaxTimers, n + 1)

(***************************************************************************)
(* Tool, connection and viewport handlers.                                 *)
(***************************************************************************)
\* setActiveTool(tool) once the annotation layer exists
SetActiveTool(tool) ==
    /\ currentTool' = tool
    /\ drawingEnabled' = (tool \notin {"drag", "sam-drag"})
    /\ drawingTool' = CASE tool \in {"drag", "sam-drag"} -> drawingTool
                        [] tool = "quadrilateral" -> "polygon"
                        [] tool = "scribble" -> "freehand"
                        [] tool = "sam-point" -> "point"
                        [] tool = "sam-rect" -> "rect"
                        [] OTHER -> tool
    /\ UNCHANGED <<scriptOrder, hiddenIcons, deletedInUI,
                   maintainTimers, samConnected, samLiveMode,
                   samStatus, probe, viewport, windowInfo, pipe, annoLayer,
                   annotations, created, updates, input, output>>

\* maintainSAMToolState, run by a timer
MaintainSAMToolState ==
    /\ maintainTimers > 0
    /\ maintainTimers' = maintainTimers - 1
    /\ IF ToolStartsWithSam(currentTool)
       THEN /\ drawingEnabled' = TRUE
            /\ drawingTool' = CASE currentTool = "sam-point" -> "point"
                                [] currentTool = "sam-rect" -> "rect"
                                [] OTHER -> drawingTool
       ELSE UNCHANGED <<drawingEnabled, drawingTool>>
    /\ UNCHANGED <<scriptOrder, hiddenIcons, deletedInUI,
                   currentTool, samConnected, samLiveMode,
                   samStatus, probe, viewport, windowInfo, pipe, annoLayer,
                   annotations, created, updates, input, output>>

\* connectToSAM, up to its await: disconnect when connected, else start
\* the probe (the button is disabled while the probe is pending).
ConnectToSAM ==
    /\ probe = "idle"
    /\ IF samConnected
       THEN /\ samConnected' = FALSE
            /\ samStatus' = "disconnected"
            /\ probe' = probe
       ELSE /\ probe' = "pending"
            /\ UNCHANGED <<samConnected, samStatus>>
    /\ UNCHANGED <<scriptOrder, hiddenIcons, deletedInUI,
                   currentTool, drawingEnabled, drawingTool,
                   maintainTimers, samLiveMode, viewport, windowInfo, pipe,
                   annoLayer, annotations, created, updates, input, output>>

\* A probe that marks the service connected whatever the response is.
ProbeSettledAlwaysConnects(ok) ==
    /\ probe = "pending"
    /\ probe' = "text"
    /\ samConnected' = TRUE
    /\ samStatus' = "connected"
    /\ UNCHANGED <<scriptOrder, hiddenIcons, deletedInUI,
                   currentTool, drawingEnabled, drawingTool,
                   maintainTimers, samLiveMode, viewport, windowInfo, pipe,
                   annoLayer, annotations, created, updates, input, output>>

\* connectToSAM after the probe settled: ok is response.ok, FALSE also
\* stands for a rejected fetch.  On a 2xx response the flag and the status
\* are set and the handler awaits response.text().  On a failure the catch
\* block sets the status and calls alert(): the dialog is open and the
\* handler stays inside the call until the user dismisses it.
ProbeSettled(ok) ==
    /\ probe = "pending"
    /\ probe' = IF ok THEN "text" ELSE "alert"
    /\ IF ok
       THEN /\ samConnected' = TRUE
            /\ samStatus' = "connected"
       ELSE /\ samStatus' = "disconnected"
            /\ UNCHANGED samConnected
    /\ UNCHANGED <<scriptOrder, hiddenIcons, deletedInUI,
                   currentTool, drawingEnabled, drawingTool,
                   maintainTimers, samLiveMode, viewport, windowInfo, pipe,
                   annoLayer, annotations, created, updates, input, output>>

\* connectToSAM after response.text() settled: the finally block enables
\* the button; when the body cannot be read the catch block sets the status
\* and calls alert(), and the flag stays as the try block set it.
ProbeTextSettled(ok) ==
    /\ probe = "text"
    /\ probe' = IF ok THEN "idle" ELSE "alert"
    /\ samStatus' = IF ok THEN samStatus ELSE "disconnected"
    /\ UNCHANGED <<scriptOrder, hiddenIcons, deletedInUI,
                   currentTool, drawingEnabled, drawingTool,
                   maintainTimers, samConnected, samLiveMode, viewport,
                   windowInfo, pipe, annoLayer, annotations, created, updates,
                   input, output>>

\* The user dismisses the alert of connectToSAM; the finally block enables
\* the connect button again.
DismissAlert ==
    /\ probe = "alert"
    /\ probe' = "idle"
    /\ UNCHANGED <<scriptOrder, hiddenIcons, deletedInUI,
                   currentTool, drawingEnabled, drawingTool,
                   maintainTimers, samConnected, samLiveMode, samStatus,
                   viewport, windowInfo, pipe, annoLayer, annotations,
                   created, updates, input, output>>

\* the change handler of the live-mode checkbox
SetLiveMode(checked) ==
    /\ samLiveMode # checked
    /\ samLiveMode' = checked
    /\ UNCHANGED <<scriptOrder, hiddenIcons, deletedInUI,
                   currentTool, drawingEnabled, drawingTool,
                   maintainTimers, samConnected, samStatus, probe, viewport,
                   windowInfo, pipe, annoLayer, annotations, created, updates,
                   input, output>>

\* The user pans or zooms to vp; the 'animation-finish' handler writes the
\* live bounds into the object window.currentImageInfo refers to.
AnimationFinish(vp) ==
    /\ vp # viewport
    /\ viewport' = vp
    /\ IF windowInfo # 0
       THEN pipe' = [pipe EXCEPT ![windowInfo].imageInfo.viewportBounds =
                                     getCurrentViewportBounds(vp)]
       ELSE UNCHANGED pipe
    /\ UNCHANGED <<scriptOrder, hiddenIcons, deletedInUI,
                   currentTool, drawingEnabled, drawingTool,
                   maintainTimers, samConnected, samLiveMode, samStatus,
                   probe, windowInfo, annoLayer, annotations, created,
                   updates, input, output>>

(***************************************************************************)
(* The createAnnotation handler and the pipeline it starts.                *)
(***************************************************************************)
\* The end of a run that drops the original instead of keeping it.
FailPipelineDropsOriginal(p, record) ==
    /\ pipe' = [pipe EXCEPT ![p] = [record EXCEPT !.pc = "done",
                                                  !.outcome = "failed"]]
    /\ annotations' = annotations
    /\ samStatus' = "connected"
    /\ maintainTimers' = ScheduleMaintain(maintainTimers)

\* The end of a run without a refined annotation: the catch of
\* processSAMPrompt sets the status, then the handler keeps the original
\* (ensureAddAnnotation(annotation)) and schedules the tool maintenance.
FailPipeline(p, record) ==
    /\ pipe' = [pipe EXCEPT ![p] = [record EXCEPT !.pc = "done",
                                                  !.outcome = "failed"]]
    /\ annotations' = addAnnotationToList(annotations, record.annotation,
                                          currentTool)
    /\ samStatus' = "connected"
    /\ maintainTimers' = ScheduleMaintain(maintainTimers)

\* A test of the createAnnotation handler that forgets live mode.
StartsPipelineWithoutLiveMode == ToolStartsWithSam(currentTool) /\ samConnected

\* currentTool.startsWith('sam-') && samConnected && samLiveMode
StartsPipeline ==
    ToolStartsWithSam(currentTool) /\ samConnected /\ samLiveMode

\* anno.on('createAnnotation'): the drawing UI has added the new shape to
\* the layer.  With a model-assisted tool, a connected service and live
\* mode, processSAMPrompt runs up to its fetch: capture, extraction,
\* forward transform, payload.  captured is FALSE when getCurrentImageData
\* returns null.
CreateAnnotation(selector, body, captured) ==
    /\ drawingEnabled
    /\ selector \in DrawnSelectors(drawingTool)
    /\ LET n == created + 1
           annotation == Annotation(UserId(n), selector, body)
           imageInfo == getCurrentImageData(viewport)
           coords == extractCoordinatesFromAnnotation(scriptOrder, annotation)
           started == [NoPipe EXCEPT !.annotation = annotation]
           withInfo == [started EXCEPT !.imageInfo = imageInfo,
                                       !.snapshot = imageInfo]
       IN  /\ created' = n
           /\ annoLayer' = LayerAdd(annoLayer, annotation)
           /\ IF StartsPipeline
              THEN IF ~captured
                   THEN /\ FailPipeline(n, started)
                        /\ UNCHANGED windowInfo
                   ELSE IF coords.type = "none"
                   THEN /\ FailPipeline(n, withInfo)
                        /\ windowInfo' = n
                   ELSE /\ pipe' = [pipe EXCEPT ![n] =
                               [withInfo EXCEPT
                                  !.pc = "fetch", !.sent = TRUE,
                                  !.payload = PromptPayload(scriptOrder,
                                      currentTool, annotation, imageInfo)]]
                        /\ windowInfo' = n
                        /\ samStatus' = "processing"
                        /\ UNCHANGED <<annotations, maintainTimers>>
              ELSE /\ annotations' = addAnnotationToList(annotations,
                                         annotation, currentTool)
                   /\ UNCHANGED <<pipe, windowInfo, samStatus, maintainTimers>>
    /\ UNCHANGED <<scriptOrder, hiddenIcons, deletedInUI,
                   currentTool, drawingEnabled, drawingTool,
                   samConnected, samLiveMode, probe, viewport, updates,
                   input, output>>

\* The fetch of processSAMPrompt settles: it rejects (network error), or
\* resolves with response.ok true or false; the body is awaited next.
FetchSettled(p, result) ==
    /\ pipe[p].pc = "fetch"
    /\ IF result = "reject"
       THEN FailPipeline(p, pipe[p])
       ELSE /\ pipe' = [pipe EXCEPT ![p].pc =
                           IF result = "ok" THEN "json" ELSE "text"]
            /\ UNCHANGED <<annotations, samStatus, maintainTimers>>
    /\ UNCHANGED <<scriptOrder, hiddenIcons, deletedInUI,
                   currentTool, drawingEnabled, drawingTool,
                   samConnected, samLiveMode, probe, viewport, windowInfo,
                   annoLayer, created, updates, input, output>>

\* response.text() of a non-2xx response settles: the request failed.
ErrorBodySettled(p) ==
    /\ pipe[p].pc = "text"
    /\ FailPipeline(p, pipe[p])
    /\ UNCHANGED <<scriptOrder, hiddenIcons, deletedInUI,
                   currentTool, drawingEnabled, drawingTool,
                   samConnected, samLiveMode, probe, viewport, windowInfo,
                   annoLayer, created, updates, input, output>>

\* response.json() rejects: the body is no JSON.
JsonRejected(p) ==
    /\ pipe[p].pc = "json"
    /\ FailPipeline(p, pipe[p])
    /\ UNCHANGED <<scriptOrder, hiddenIcons, deletedInUI,
                   currentTool, drawingEnabled, drawingTool,
                   samConnected, samLiveMode, probe, viewport, windowInfo,
                   annoLayer, created, updates, input, output>>

\* The commit of the then-handler: the body of the original is moved to
\* the refined annotation, the original is removed from the viewer and the
\* refined one added inside one try block, and the refined one is added to
\* the lists.  raised names the viewer call that throws, if one does.
CommitPipeline(p, samAnnotation, samResult, raised) ==
    LET original == pipe[p].annotation
        refined == IF Len(original.body) > 0
                   THEN [samAnnotation EXCEPT !.body = original.body]
                   ELSE samAnnotation
    IN  /\ annoLayer' =
              CASE raised = "remove" -> annoLayer
                [] raised = "add" -> LayerRemove(annoLayer, original.id)
                [] OTHER -> LayerAdd(LayerRemove(annoLayer, original.id), refined)
        /\ annotations' = addAnnotationToList(annotations, refined, currentTool)
        /\ pipe' = [pipe EXCEPT ![p].pc = "done", ![p].outcome = "committed",
                                ![p].samResult = samResult,
                                ![p].samAnnotation = refined]
        /\ samStatus' = "connected"
        /\ maintainTimers' = ScheduleMaintain(maintainTimers)

\* response.json() resolves with samResult: convertSAMResultToAnnotation,
\* then the then-handler of the createAnnotation handler.
JsonSettled(p, samResult, raised) ==
    /\ pipe[p].pc = "json"
    /\ LET samAnnotation == convertSAMResultToAnnotation(scriptOrder,
                                samResult, p, pipe[p].imageInfo,
                                WindowImageInfo, windowInfo # 0)
       IN  IF samAnnotation = NoAnnotation
           THEN /\ raised = "none"
                /\ FailPipeline(p, [pipe[p] EXCEPT !.samResult = samResult])
                /\ UNCHANGED annoLayer
           ELSE CommitPipeline(p, samAnnotation, samResult, raised)
    /\ UNCHANGED <<scriptOrder, hiddenIcons, deletedInUI,
                   currentTool, drawingEnabled, drawingTool,
                   samConnected, samLiveMode, probe, viewport, windowInfo,
                   created, updates, input, output>>

(***************************************************************************)
(* Update and delete events of the drawing UI.                             *)
(***************************************************************************)
\* anno.on('updateAnnotation'): the editor saved a new body for a displayed
\* annotation; the second handler adds the updated annotation to the lists.
UpdateAnnotation(a, body) ==
    /\ updates < MaxUpdates
    /\ a \in annoLayer
    /\ body # a.body
    /\ LET updated == [a EXCEPT !.body = body]
       IN  /\ annoLayer' = LayerAdd(annoLayer, updated)
           /\ annotations' = addAnnotationToList(annotations, updated,
                                                 currentTool)
    /\ updates' = updates + 1
    /\ maintainTimers' = IF ToolStartsWithSam(currentTool)
                         THEN ScheduleMaintain(maintainTimers)
                         ELSE maintainTimers
    /\ UNCHANGED <<scriptOrder, hiddenIcons, deletedInUI,
                   currentTool, drawingEnabled, drawingTool,
                   samConnected, samLiveMode, samStatus, probe, viewport,
                   windowInfo, pipe, created, input, output>>

\* anno.on('deleteAnnotation'): the drawing UI has removed the shape from
\* the layer.  The handler calls removeAnnotation, which no script
\* declares: the call throws a ReferenceError and the handler ends there.
DeleteAnnotation(a) ==
    /\ a \in annoLayer
    /\ annoLayer' = LayerRemove(annoLayer, a.id)
    /\ deletedInUI' = deletedInUI \cup {a.id}
    /\ UNCHANGED <<scriptOrder, hiddenIcons,
                   currentTool, drawingEnabled, drawingTool,
                   maintainTimers, samConnected, samLiveMode, samStatus,
                   probe, viewport, windowInfo, pipe, annotations, created,
                   updates, input, output>>

\* anno.on('selectAnnotation'): with a model-assisted tool the handler
\* schedules the tool maintenance; the selection itself changes the
\* highlight only.
SelectAnnotation(a) ==
    /\ a \in annoLayer
    /\ maintainTimers' = IF ToolStartsWithSam(currentTool)
                         THEN ScheduleMaintain(maintainTimers)
                         ELSE maintainTimers
    /\ UNCHANGED <<scriptOrder, hiddenIcons, deletedInUI, currentTool,
                   drawingEnabled,
                   drawingTool, samConnected, samLiveMode, samStatus, probe,
                   viewport, windowInfo, pipe, annoLayer, annotations,
                   created, updates, input, output>>

(***************************************************************************)
(* Visibility, tabs and folders.  updateAnnotationVisibility is declared   *)
(* as a global function both in annotation-manager.js and in the           *)
(* application script that sets up the tabs (part_000); the declaration of *)
(* the script loaded last is the one the tab click calls.  A visibility    *)
(* icon belongs to a list item; the model marks the id of its annotation.  *)
(***************************************************************************)
\* tabDefaults[tab].tool
tabDefaults(tab) == IF tab = "sam" THEN "sam-drag" ELSE "drag"

\* The layers updateAnnotationVisibility can leave after
\* anno.clearAnnotations().  The declaration of annotation-manager.js adds
\* every entry of every list whose icon is not hidden, in the order of the
\* keys of the store: of the entries with one id the layer keeps the one
\* added last.  The declaration of the application script adds the entries
\* of annotations[currentTab] only; the lists of the model are keyed by
\* tags, none of which is a tab name.
updateAnnotationVisibility(order, store, hidden, tab) ==
    LET shown ==
            IF order.visibility = "annotation-manager-last"
            THEN {a \in StoreEntries(store) : a.id \notin hidden}
            ELSE IF tab \in DOMAIN store
                 THEN {a \in SeqToSet(store[tab]) : a.id \notin hidden}
                 ELSE {}
    IN  {layer \in SUBSET shown :
            \A a \in shown :
               Cardinality({b \in layer : b.id = a.id}) = 1}

\* A click on a tab: applyTabDefaults selects the default tool of the tab
\* (a drag tool, which disables drawing), then updateAnnotationVisibility.
SwitchTab(targetTab) ==
    /\ currentTool' = tabDefaults(targetTab)
    /\ drawingEnabled' = FALSE
    /\ annoLayer' \in updateAnnotationVisibility(scriptOrder, annotations,
                                                 hiddenIcons, targetTab)
    /\ UNCHANGED <<scriptOrder, hiddenIcons, deletedInUI, drawingTool,
                   maintainTimers,
                   samConnected, samLiveMode, samStatus, probe, viewport,
                   windowInfo, pipe, annotations, created, updates, input,
                   output>>

\* toggleAnnotationVisibility, the eye icon of the list item of a.
ToggleAnnotationVisibility(a) ==
    /\ a \in StoreEntries(annotations)
    /\ IF a.id \in hiddenIcons
       THEN /\ hiddenIcons' = hiddenIcons \ {a.id}
            /\ annoLayer' = IF \E shown \in annoLayer : shown.id = a.id
                            THEN annoLayer
                            ELSE LayerAdd(annoLayer, a)
       ELSE /\ hiddenIcons' = hiddenIcons \cup {a.id}
            /\ annoLayer' = LayerRemove(annoLayer, a.id)
    /\ UNCHANGED <<scriptOrder, deletedInUI, currentTool, drawingEnabled,
                   drawingTool, maintainTimers, samConnected, samLiveMode,
                   samStatus, probe, viewport, windowInfo, pipe, annotations, created,
                   updates, input, output>>

\* deleteFolderAndAnnotations(tag), the delete button of a folder;
\* confirmDelete is the answer to its confirm dialog.  An empty folder is
\* removed from the page only.
DeleteFolderAndAnnotations(tag, confirmDelete) ==
    /\ IF Len(annotations[tag]) = 0 \/ ~confirmDelete
       THEN UNCHANGED <<annoLayer, annotations, hiddenIcons>>
       ELSE LET removed == {annotations[tag][i].id :
                               i \in 1..Len(annotations[tag])}
            IN  /\ annoLayer' = {a \in annoLayer : a.id \notin removed}
                /\ annotations' = [annotations EXCEPT ![tag] = <<>>]
                /\ hiddenIcons' =
                     {id \in hiddenIcons :
                         id \notin removed
                         \/ \E t \in TagNames \ {tag} :
                               \E i \in 1..Len(annotations[t]) :
                                  annotations[t][i].id = id}
    /\ UNCHANGED <<scriptOrder, deletedInUI, currentTool, drawingEnabled,
                   drawingTool, maintainTimers, samConnected, samLiveMode,
                   samStatus, probe, viewport, windowInfo, pipe, created, updates,
                   input, output>>

(***************************************************************************)
(* The program at the home viewport: the handlers of the tool buttons, of  *)
(* the connection controls and of the drawing UI, and the pipeline of an   *)
(* annotation.  Panning and zooming are part of SpecConcurrent below.      *)
(***************************************************************************)
\* No script runs while the alert dialog of connectToSAM is open.
Next ==
    \/ /\ probe # "alert"
       /\ \E tool \in ToolChoices : SetActiveTool(tool)
    \/ /\ probe # "alert"
       /\ MaintainSAMToolState
    \/ ConnectToSAM
    \/ \E ok \in BOOLEAN : ProbeSettled(ok)
    \/ \E ok \in BOOLEAN : ProbeTextSettled(ok)
    \/ DismissAlert
    \/ /\ probe # "alert"
       /\ \E checked \in BOOLEAN : SetLiveMode(checked)
    \/ /\ probe # "alert"
       /\ created < MaxAnnotations
       /\ \E selector \in PointSelectors \cup RectSelectors,
             body \in CreatedBodies, captured \in BOOLEAN :
             CreateAnnotation(selector, body, captured)
    \/ /\ probe # "alert"
       /\ \E p \in Pipes, result \in {"reject", "ok", "notOk"} :
             FetchSettled(p, result)
    \/ /\ probe # "alert"
       /\ \E p \in Pipes : ErrorBodySettled(p)
    \/ /\ probe # "alert"
       /\ \E p \in Pipes : JsonRejected(p)
    \/ /\ probe # "alert"
       /\ \E p \in Pipes, samResult \in SamResults,
             raised \in {"none", "remove", "add"} :
             JsonSettled(p, samResult, raised)
    \/ /\ probe # "alert"
       /\ \E a \in annoLayer, body \in UpdatedBodies :
             UpdateAnnotation(a, body)
    \/ /\ probe # "alert"
       /\ \E a \in annoLayer : DeleteAnnotation(a)
    \/ /\ probe # "alert"
       /\ \E a \in annoLayer : SelectAnnotation(a)

Spec == Init /\ [][Next]_vars

\* The program with its event loop running: a timer that is due fires.  The
\* fetch of processSAMPrompt is issued with no timeout and no abort signal,
\* so nothing in the program makes a remote call settle.
SpecLive == Spec /\ WF_vars(MaintainSAMToolState)

(***************************************************************************)
(* Pipelines in flight together: the user connects, selects the point      *)
(* tool, draws points and pans while the service answers.                  *)
(***************************************************************************)
NextConcurrent ==
    \/ SetActiveTool("sam-point")
    \/ ConnectToSAM
    \/ ProbeSettled(TRUE)
    \/ ProbeTextSettled(TRUE)
    \/ \E vp \in LiveViewports : AnimationFinish(vp)
    \/ /\ created < MaxInFlight
       /\ \E selector \in PointSelectors : CreateAnnotation(selector, <<>>, TRUE)
    \/ \E p \in Pipes : FetchSettled(p, "ok")
    \/ \E p \in Pipes, samResult \in SamResults : JsonSettled(p, samResult, "none")

SpecConcurrent == Init /\ [][NextConcurrent]_vars

(***************************************************************************)
(* Candidate selection on its own: convertSAMResultToAnnotation applied to *)
(* an object response at the home viewport.                                *)
(***************************************************************************)
\* Candidate polygons of area 400, 100 and 50 (800, 200 and 100 half units).
Square400 == <<<<0, 0>>, <<20, 0>>, <<20, 20>>, <<0, 20>>>>

Square100 == <<<<5, 5>>, <<5, 15>>, <<15, 15>>, <<15, 5>>>>

Triangle50 == <<<<0, 0>>, <<10, 0>>, <<0, 10>>>>

Candidates ==
    {Feature(<<Square400>>, 9), Feature(<<Square100>>, 5),
     Feature(<<Triangle50>>, 1), Feature(<<Triangle50, Square400>>, 7),
     FeatureWithoutGeometry(8)}

RECURSIVE SeqsUpTo(_, _)
SeqsUpTo(S, n) ==
    IF n = 0
    THEN {<<>>}
    ELSE LET shorter == SeqsUpTo(S, n - 1)
         IN  shorter \cup {Append(s, x) : s \in shorter, x \in S}

CandidateLists == SeqsUpTo(Candidates, MaxCandidates) \ {<<>>}

InitSelect ==
    /\ ProgramInit
    /\ input \in {[kind |-> "features", features |-> fs] : fs \in CandidateLists}
    /\ output = NoOutput

SelectCandidate ==
    /\ input.kind = "features"
    /\ output = NoOutput
    /\ LET imageInfo == getCurrentImageData(viewport)
           samResult == SamResult("object", input.features)
       IN  output' =
             [kind |-> "selected",
              bestFeature |-> SelectBestFeature(FeaturesOf(samResult)),
              samAnnotation |-> convertSAMResultToAnnotation(scriptOrder,
                                    samResult, 1, imageInfo, imageInfo, TRUE)]
    /\ UNCHANGED <<scriptOrder, hiddenIcons, deletedInUI,
                   currentTool, drawingEnabled, drawingTool,
                   maintainTimers, samConnected, samLiveMode, samStatus,
                   probe, viewport, windowInfo, pipe, annoLayer, annotations,
                   created, updates, input>>

SpecSelect == InitSelect /\ [][SelectCandidate]_vars

(***************************************************************************)
(* The request payload on its own: processSAMPrompt from the capture to    *)
(* the payload, for a prompt drawn with a model-assisted tool.             *)
(***************************************************************************)
\* The viewport of the scenario (offset (1000,2000), 500x500 image pixels,
\* downsample 2) and a viewport at full resolution.
RequestViewports == {Viewport(1000, 2000, 2, 250, 250), Viewport(0, 0, 1, 4, 4)}

\* Points and boxes inside, on the edge of and outside the visible regions.
RequestSelectors ==
    {FragmentSelector(1200, 2200, 0, 0), FragmentSelector(1001, 2003, 0, 0),
     FragmentSelector(1499, 2499, 0, 0), FragmentSelector(900, 2600, 0, 0),
     FragmentSelector(2, 3, 0, 0), FragmentSelector(0, 0, 0, 0),
     FragmentSelector(1200, 2200, 50, 50), FragmentSelector(1400, 2400, 200, 200),
     FragmentSelector(1, 1, 2, 2), FragmentSelector(1, 1, 2, 0),
     FragmentSelector(3, 3, 4, 4), FragmentSelector(-1, 2, 2, 2)}

InitRequest ==
    /\ ProgramInit
    /\ input \in [kind : {"prompt"}, tool : {"sam-point", "sam-rect"},
                  selector : RequestSelectors, viewport : RequestViewports]
    /\ output = NoOutput

BuildRequest ==
    /\ input.kind = "prompt"
    /\ output = NoOutput
    /\ LET annotation == Annotation(UserId(1), input.selector, <<>>)
           imageInfo == getCurrentImageData(input.viewport)
       IN  output' =
             [kind |-> "request",
              sent |-> extractCoordinatesFromAnnotation(scriptOrder, annotation).type # "none",
              imageInfo |-> imageInfo,
              payload |-> PromptPayload(scriptOrder, input.tool, annotation,
                                        imageInfo)]
    /\ UNCHANGED <<scriptOrder, hiddenIcons, deletedInUI,
                   currentTool, drawingEnabled, drawingTool,
                   maintainTimers, samConnected, samLiveMode, samStatus,
                   probe, viewport, windowInfo, pipe, annoLayer, annotations,
                   created, updates, input>>

SpecRequest == InitRequest /\ [][BuildRequest]_vars

(***************************************************************************)
(* The transforms on their own: the inverse applied to a response polygon  *)
(* with the descriptor of a snapshot, and the forward transform followed   *)
(* by the inverse with a descriptor that holds a downsample.               *)
(***************************************************************************)
\* Coordinates of response geometries, in capture pixels: one ring, a ring
\* with a point outside the capture, and a polygon with a hole.
ResponsePolygons ==
    {<<<<<<100, 100>>, <<120, 100>>, <<100, 130>>>>>>,
     <<Square>>, <<Triangle>>,
     <<<<<<-2, 1>>, <<300, 1>>, <<300, 260>>>>>>,
     <<Square400, Square100>>}

\* A descriptor as the transforms of coordinate-transforms.js read it: the
\* bounds of the visible region together with the downsample.
DescriptorWithDownsample(vp) ==
    [getCurrentImageData(vp) EXCEPT
        !.viewportBounds.hasDownsample = TRUE,
        !.viewportBounds.downsample = vp.downsample]

RoundTripViewports == RequestViewports \cup {Viewport(10, 20, 4, 5, 5)}

\* Shapes inside, on the edge of and outside the visible regions.
RoundTripSelectors ==
    RequestSelectors \cup
    {FragmentSelector(13, 27, 0, 0), FragmentSelector(29, 39, 0, 0),
     FragmentSelector(30, 21, 0, 0), FragmentSelector(11, 23, 7, 9),
     FragmentSelector(5, 45, 3, 3)}

InitTransform ==
    /\ ProgramInit
    /\ input \in
         {[kind |-> "polygon", coordinates |-> c, viewport |-> vp] :
              c \in ResponsePolygons, vp \in RequestViewports}
         \cup
         {[kind |-> "shape", selector |-> sel, viewport |-> vp] :
              sel \in RoundTripSelectors, vp \in RoundTripViewports}
    /\ output = NoOutput

\* convertSAMResultToAnnotation, its inverse step: the coordinates of the
\* selected geometry are converted with the imageInfo of the capture.
ConvertBack ==
    /\ input.kind = "polygon"
    /\ output = NoOutput
    /\ LET imageInfo == getCurrentImageData(input.viewport)
       IN  output' =
             [kind |-> "converted",
              imageInfo |-> imageInfo,
              wsiCoordinates |-> transformCanvasToWSICoordinates(scriptOrder,
                                     input.coordinates, imageInfo, imageInfo,
                                     TRUE)]
    /\ UNCHANGED <<scriptOrder, hiddenIcons, deletedInUI,
                   currentTool, drawingEnabled, drawingTool,
                   maintainTimers, samConnected, samLiveMode, samStatus,
                   probe, viewport, windowInfo, pipe, annoLayer, annotations,
                   created, updates, input>>

\* The forward transform of a shape followed by the inverse transform of
\* its capture position, both with the same descriptor.
RoundTrip ==
    /\ input.kind = "shape"
    /\ output = NoOutput
    /\ LET annotation == Annotation(UserId(1), input.selector, <<>>)
           coords == extractCoordinatesFromAnnotation(scriptOrder, annotation)
           imageInfo == DescriptorWithDownsample(input.viewport)
           canvasCoords == transformWSIToCanvasCoordinates(scriptOrder,
                               coords, imageInfo, imageInfo, TRUE)
       IN  /\ coords.type # "none"
           /\ output' =
                 [kind |-> "roundTrip",
                  canvasCoords |-> canvasCoords,
                  wsiCoordinates |-> transformCanvasToWSICoordinates(
                      scriptOrder,
                      <<<<<<canvasCoords.x, canvasCoords.y>>>>>>,
                      imageInfo, imageInfo, TRUE)]
    /\ UNCHANGED <<scriptOrder, hiddenIcons, deletedInUI,
                   currentTool, drawingEnabled, drawingTool,
                   maintainTimers, samConnected, samLiveMode, samStatus,
                   probe, viewport, windowInfo, pipe, annoLayer, annotations,
                   created, updates, input>>

NextTransform == ConvertBack \/ RoundTrip

SpecTransform == InitTransform /\ [][NextTransform]_vars

(***************************************************************************)
(* The store on its own: no service is connected, the user switches tools, *)
(* draws, edits and renames annotations and removes them from the lists.   *)
(***************************************************************************)
\* Annotations drawn in this specification.
MaxStoreAnnotations == 1

StoreTools == {"drag", "rect", "sam-rect"}

\* Bodies the editor saves on update: a comment with and one without a
\* keyword of isAnnotationFromSAMEnhanced.
StoreBodies == UpdatedBodies \cup {<<BodyItem("commenting", "Note")>>}

\* Names typed into the prompt of openAnnotationSettings.
NewNames == {"Tumor", "Stroma"}

\* An annotation that was never added.
StrayAnnotation ==
    Annotation(UserId(0), FragmentSelector(1, 1, 2, 2), <<>>)

\* openAnnotationSettings of a list item: the name is written into the
\* first body item of the annotation object, which the lists hold too,
\* then updateAnnotationInList runs.
EditAnnotationName(a, newName) ==
    /\ a \in StoreEntries(annotations)
    /\ LET currentName == IF Len(a.body) > 0
                          THEN a.body[1].value
                          ELSE "Interactive Segmentation..."
           body == IF Len(a.body) > 0
                   THEN [a.body EXCEPT ![1].value = newName]
                   ELSE <<BodyItem("commenting", newName)>>
           renamed == [a EXCEPT !.body = body]
           aliased == [t \in DOMAIN annotations |->
                         [i \in 1..Len(annotations[t]) |->
                            IF annotations[t][i] = a
                            THEN renamed
                            ELSE annotations[t][i]]]
       IN  /\ newName # currentName
           /\ annotations' = updateAnnotationInList(aliased, renamed,
                                                    currentTool)
    /\ UNCHANGED <<scriptOrder, hiddenIcons, deletedInUI,
                   currentTool, drawingEnabled, drawingTool,
                   maintainTimers, samConnected, samLiveMode, samStatus,
                   probe, viewport, windowInfo, pipe, annoLayer, created,
                   updates, input, output>>

\* The delete button of a list item: deleteAnnotation(annotation, category)
DeleteFromList(a) ==
    /\ a \in StoreEntries(annotations)
    /\ annoLayer' = LayerRemove(annoLayer, a.id)
    /\ annotations' = deleteAnnotation(annotations, a, currentTool)
    /\ output' = [kind |-> "deleted", annotation |-> a, wasPresent |-> TRUE]
    /\ UNCHANGED <<scriptOrder, hiddenIcons, deletedInUI,
                   currentTool, drawingEnabled, drawingTool,
                   maintainTimers, samConnected, samLiveMode, samStatus,
                   probe, viewport, windowInfo, pipe, created, updates,
                   input>>

\* removeAnnotationFromList(annotation), called with an annotation of the
\* lists, of the viewer, or one that was never added.
RemoveFromList(a) ==
    /\ a \in StoreEntries(annotations) \cup annoLayer \cup {StrayAnnotation}
    /\ annotations' = removeAnnotationFromList(annotations, a, currentTool)
    /\ output' = [kind |-> "removed", annotation |-> a,
                  wasPresent |->
                      a.id \in {e.id : e \in StoreEntries(annotations)}]
    /\ UNCHANGED <<scriptOrder, hiddenIcons, deletedInUI,
                   currentTool, drawingEnabled, drawingTool,
                   maintainTimers, samConnected, samLiveMode, samStatus,
                   probe, viewport, windowInfo, pipe, annoLayer, created,
                   updates, input>>

NextStore ==
    \/ \E tool \in StoreTools : SetActiveTool(tool)
    \/ /\ created < MaxStoreAnnotations
       /\ \E body \in CreatedBodies :
             CreateAnnotation(FragmentSelector(4, 2, 2, 2), body, TRUE)
    \/ \E a \in annoLayer, body \in StoreBodies : UpdateAnnotation(a, body)
    \/ \E a \in StoreEntries(annotations), newName \in NewNames :
          EditAnnotationName(a, newName)
    \/ \E a \in StoreEntries(annotations) : DeleteFromList(a)
    \/ \E a \in StoreEntries(annotations) \cup annoLayer \cup {StrayAnnotation} :
          RemoveFromList(a)

SpecStore == Init /\ [][NextStore]_vars

(***************************************************************************)
(* The classification on its own: getAnnotationTags applied to an          *)
(* annotation while a tool is active.                                      *)
(***************************************************************************)
\* Bodies with no, one and several tagging items, blank tag values, values
\* to trim and comments with and without a keyword.
ClassifyBodies ==
    {<<>>,
     <<BodyItem("commenting", "Note")>>,
     <<BodyItem("commenting", "SAM mask")>>,
     <<BodyItem("tagging", "  ")>>,
     <<BodyItem("tagging", "Tumor")>>,
     <<BodyItem("commenting", "Sample"), BodyItem("tagging", " Tumor ")>>,
     <<BodyItem("tagging", "Stroma"), BodyItem("commenting", "Note"),
       BodyItem("tagging", "  "), BodyItem("tagging", " Tumor ")>>}

\* Annotations with and without a body, with and without the properties
\* samGenerated and samTool, with a drawn and with a 'sam-' id.
ClassifyAnnotations ==
    LET ids == {UserId(1), SamId(1)}
        selector == FragmentSelector(4, 2, 2, 2)
    IN  {[id |-> id, selector |-> selector] : id \in ids}
        \cup {Annotation(id, selector, body) :
                 id \in ids, body \in ClassifyBodies}
        \cup {[id |-> id, selector |-> selector, body |-> body,
               samGenerated |-> TRUE] : id \in ids, body \in ClassifyBodies}
        \cup {[id |-> id, selector |-> selector, body |-> body,
               samTool |-> "sam-point"] : id \in ids, body \in ClassifyBodies}

InitClassify ==
    /\ ProgramInit
    /\ input \in [kind : {"annotation"}, annotation : ClassifyAnnotations,
                  tool : ToolChoices]
    /\ output = NoOutput

Classify ==
    /\ input.kind = "annotation"
    /\ output = NoOutput
    /\ output' = [kind |-> "tags",
                  tags |-> getAnnotationTags(input.annotation, input.tool)]
    /\ UNCHANGED <<scriptOrder, hiddenIcons, deletedInUI,
                   currentTool, drawingEnabled, drawingTool,
                   maintainTimers, samConnected, samLiveMode, samStatus,
                   probe, viewport, windowInfo, pipe, annoLayer, annotations,
                   created, updates, input>>

SpecClassify == InitClassify /\ [][Classify]_vars

(***************************************************************************)
(* Tool state: the user switches between the model-assisted tools and      *)
(* draws while the service is connected; the pipelines fail and schedule   *)
(* the delayed tool-state maintenance.                                     *)
(***************************************************************************)
NextToolState ==
    \/ \E tool \in SamTools : SetActiveTool(tool)
    \/ MaintainSAMToolState
    \/ ConnectToSAM
    \/ ProbeSettled(TRUE)
    \/ ProbeTextSettled(TRUE)
    \/ /\ created < MaxInFlight
       /\ \E selector \in {FragmentSelector(5, 3, 0, 0),
                            FragmentSelector(4, 2, 2, 2)} :
             CreateAnnotation(selector, <<>>, TRUE)
    \/ \E p \in Pipes : FetchSettled(p, "reject")
    \/ \E a \in annoLayer : SelectAnnotation(a)
    \/ \E a \in annoLayer : DeleteAnnotation(a)

SpecToolState == Init /\ [][NextToolState]_vars

(***************************************************************************)
(* The viewer and the lists: annotations are drawn by hand or refined by   *)
(* the service, edited, deleted in the drawing layer, hidden and shown by  *)
(* their icons, whole folders are deleted and the tabs are switched.  The  *)
(* page has loaded its scripts in one of the orders, the declarations of   *)
(* updateAnnotationVisibility included.                                    *)
(***************************************************************************)
InitViewer ==
    /\ LoadedPage
    /\ input = NoInput
    /\ output = NoOutput
    /\ scriptOrder \in [transforms : TransformScripts, codec : CodecScripts,
                        visibility : {"annotation-manager-last",
                                      "application-last"}]

NextViewer ==
    \/ \E tool \in {"rect", "sam-rect"} : SetActiveTool(tool)
    \/ MaintainSAMToolState
    \/ ConnectToSAM
    \/ ProbeSettled(TRUE)
    \/ ProbeTextSettled(TRUE)
    \/ /\ created < MaxAnnotations
       /\ \E body \in {<<>>, <<BodyItem("tagging", "Tumor"),
                               BodyItem("tagging", "Stroma")>>} :
             CreateAnnotation(FragmentSelector(4, 2, 2, 2), body, TRUE)
    \/ \E p \in Pipes, result \in {"reject", "ok"} : FetchSettled(p, result)
    \/ \E p \in Pipes :
          JsonSettled(p, SamResult("object", <<Feature(<<Square>>, 5)>>),
                      "none")
    \/ \E a \in annoLayer, body \in UpdatedBodies : UpdateAnnotation(a, body)
    \/ \E a \in annoLayer : DeleteAnnotation(a)
    \/ \E a \in annoLayer : SelectAnnotation(a)
    \/ \E a \in StoreEntries(annotations) : ToggleAnnotationVisibility(a)
    \/ \E targetTab \in {"manual", "sam"} : SwitchTab(targetTab)
    \/ \E tag \in TagNames, confirmDelete \in BOOLEAN :
          DeleteFolderAndAnnotations(tag, confirmDelete)

SpecViewer == InitViewer /\ [][NextViewer]_vars

(***************************************************************************)
(* The geometry codec and the export applied to one input: the decoder of  *)
(* processSAMPrompt up to its request, the encoder of a converted ring,    *)
(* the export of one annotation.                                           *)
(***************************************************************************)
\* Fragments with no, one and two zero sides, at the origin, inside the
\* image and left of it.
DecodeFragments ==
    {FragmentSelector(x, y, w, h) :
        x \in {-1, 0, 5}, y \in {0, 3}, w \in {0, 2}, h \in {0, 3}}

\* Shape selectors of the drawing UI: the elements the decoder queries and
\* two it does not.
DecodeShapes ==
    {SvgShape(element, x, 1, w, 3) :
        element \in {"circle", "rect", "polygon", "ellipse", "path"},
        x \in {1, 2}, w \in {0, 2}}

\* Rings of one to four points; two of them hold the same points in
\* another order, one holds a point twice.
EncodeRings ==
    {<<<<3, 4>>>>, <<<<0, 0>>, <<2, 0>>>>, <<<<2, 0>>, <<0, 0>>>>,
     <<<<0, 0>>, <<2, 0>>, <<0, 2>>>>, <<<<0, 2>>, <<2, 0>>, <<0, 0>>>>,
     <<<<1, 1>>, <<1, 1>>, <<2, 2>>>>,
     <<<<0, 0>>, <<3, 0>>, <<3, 3>>, <<0, 3>>>>}

\* What convertSAMResultToAnnotation passes to the encoder: one ring, and
\* the values the encoder rejects.
EncodeInputs == {<<ring>> : ring \in EncodeRings} \cup {<<>>, <<<<>>>>}

\* The selector values either encoder writes.
EncodedSelectors ==
    {createSVGPathFromWSICoordinates(order, <<ring>>) :
        order \in ScriptOrders, ring \in EncodeRings}

ExportBodies == {<<>>, <<BodyItem("commenting", "SAM mask")>>}

CodecInputs ==
    {[kind |-> "decode", tool |-> tool, annotation |-> annotation] :
        tool \in {"sam-point", "sam-rect"},
        annotation \in
            {Annotation(UserId(1), selector, <<>>) :
                selector \in DecodeFragments \cup DecodeShapes
                             \cup EncodedSelectors \cup {OtherSelector}}
            \cup {WithoutSelector(UserId(1), <<>>)}}
    \cup {[kind |-> "encode", wsiCoordinates |-> wsiCoordinates] :
             wsiCoordinates \in EncodeInputs}
    \cup {[kind |-> "export", annotation |-> annotation] :
             annotation \in
                 {Annotation(id, selector, body) :
                     id \in {UserId(1), SamId(1)},
                     selector \in EncodedSelectors
                                  \cup {FragmentSelector(4, 2, 2, 2)},
                     body \in ExportBodies}
                 \cup {WithoutSelector(UserId(1), <<>>)}}

InitCodec ==
    /\ ProgramInit
    /\ input \in CodecInputs
    /\ output = NoOutput

\* processSAMPrompt from the extraction to the request, with the capture
\* of the home viewport.
Decode ==
    /\ input.kind = "decode"
    /\ output = NoOutput
    /\ output' =
         [kind |-> "decoded",
          coords |-> extractCoordinatesFromAnnotation(scriptOrder,
                                                      input.annotation),
          sent |-> PromptPayload(scriptOrder, input.tool, input.annotation,
                                 getCurrentImageData(HomeViewport))
                   # NoPayload]
    /\ UNCHANGED <<scriptOrder, hiddenIcons, deletedInUI,
                   currentTool, drawingEnabled, drawingTool,
                   maintainTimers, samConnected, samLiveMode, samStatus,
                   probe, viewport, windowInfo, pipe, annoLayer, annotations,
                   created, updates, input>>

Encode ==
    /\ input.kind = "encode"
    /\ output = NoOutput
    /\ output' =
         [kind |-> "encoded",
          selector |-> createSVGPathFromWSICoordinates(scriptOrder,
                                                       input.wsiCoordinates)]
    /\ UNCHANGED <<scriptOrder, hiddenIcons, deletedInUI,
                   currentTool, drawingEnabled, drawingTool,
                   maintainTimers, samConnected, samLiveMode, samStatus,
                   probe, viewport, windowInfo, pipe, annoLayer, annotations,
                   created, updates, input>>

Export ==
    /\ input.kind = "export"
    /\ output = NoOutput
    /\ output' =
         [kind |-> "exported",
          document |-> convertAnnotationToExportFormat(input.annotation)]
    /\ UNCHANGED <<scriptOrder, hiddenIcons, deletedInUI,
                   currentTool, drawingEnabled, drawingTool,
                   maintainTimers, samConnected, samLiveMode, samStatus,
                   probe, viewport, windowInfo, pipe, annoLayer, annotations,
                   created, updates, input>>

NextCodec == Decode \/ Encode \/ Export

SpecCodec == InitCodec /\ [][NextCodec]_vars

(***************************************************************************)
(* Properties.                                                             *)
(***************************************************************************)
\* The remote call of pipeline p is in flight.
InFlight(p) == pipe[p].pc \in {"fetch", "json", "text"}

\* The ids of the annotations in the lists of a store.
StoreIds(store) ==
    UNION {{store[t][i].id : i \in 1..Len(store[t])} : t \in TagNames}

\* The annotation is an entry of a list of the store.
InStore(store, annotation) ==
    \E t \in TagNames : annotation \in SeqToSet(store[t])

\* An annotation with this id is displayed or listed.
Present(id, layer, store) ==
    (\E a \in layer : a.id = id) \/ id \in StoreIds(store)

\* The 'sam-' entries of a list, in order.
SamEntries(list) == SelectSeq(list, LAMBDA a : IdStartsWithSam(a.id))

\* C1: every step that ends a pipeline without a refined annotation (at the
\* capture, at the extraction, on a rejected call, on a non-2xx response,
\* on a body that is no JSON or holds no usable feature) appends the
\* original annotation, the one the drawing UI created with its id,
\* selector and body, to a list of the store, and adds no 'sam-'
\* annotation to the store or to the viewer.
C1_FailedRunKeepsOriginal ==
    [][\A p \in Pipes :
         (pipe[p].pc # "done" /\ pipe'[p].pc = "done"
            /\ pipe'[p].outcome = "failed")
         => LET original == pipe'[p].annotation
            IN  /\ original.id = UserId(p)
                /\ pipe[p].pc = "none" => original \in annoLayer'
                /\ pipe[p].pc # "none" => original = pipe[p].annotation
                /\ \E t \in TagNames :
                      annotations'[t] = Append(annotations[t], original)
                /\ \A t \in TagNames :
                      SamEntries(annotations'[t]) = SamEntries(annotations[t])
                /\ {a \in annoLayer' : IdStartsWithSam(a.id)}
                     = {a \in annoLayer : IdStartsWithSam(a.id)}]_vars

\* C1 witness: a pipeline whose request was sent has ended without a refined
\* annotation and its original is in the store.
C1_Witness ==
    \E p \in Pipes :
       /\ pipe[p].pc = "done" /\ pipe[p].outcome = "failed" /\ pipe[p].sent
       /\ InStore(annotations, pipe[p].annotation)
       /\ \A id \in StoreIds(annotations) : ~IdStartsWithSam(id)

\* C2: when the provisional annotation of a pipeline was deleted from the
\* viewer while the remote call is in flight, the step that ends the
\* pipeline (with a result or with an error) changes neither the store nor
\* the viewer: neither the refined nor the deleted original is added.
C2_DeletedNeverResurrected ==
    [][\A p \in Pipes :
         (InFlight(p) /\ pipe'[p].pc = "done"
            /\ ~(\E a \in annoLayer : a.id = pipe[p].annotation.id))
         => (annotations' = annotations /\ annoLayer' = annoLayer)]_vars

\* C3: after the step that commits a pipeline, exactly one of the
\* provisional and the refined annotation is present (displayed or
\* listed), also when a viewer call of the commit raises an error.
C3_CommitExactlyOne ==
    [][\A p \in Pipes :
         (pipe[p].pc = "json" /\ pipe'[p].outcome = "committed")
         => (Present(pipe'[p].annotation.id, annoLayer', annotations')
               # Present(pipe'[p].samAnnotation.id, annoLayer', annotations'))]_vars

\* The vertices a selector value holds, in the order it writes them: the
\* coordinates of the M and L commands of a path, the pairs of a polygon.
Vertices(selector) ==
    IF selector.element = "path"
    THEN [i \in 1..(Len(selector.data) - 1) |->
             <<selector.data[i].x, selector.data[i].y>>]
    ELSE IF selector.element = "polygon"
         THEN [i \in 1..Len(selector.data) |->
                  <<selector.data[i].x, selector.data[i].y>>]
         ELSE <<>>

\* The first ring of the selected candidate of a response, converted to
\* image pixels with the offset and the scale of a snapshot.
SnapshotRing(samResult, snapshot) ==
    LET ring == SelectBestFeature(FeaturesOf(samResult)).coordinates[1]
        bounds == snapshot.viewportBounds
        scaleX == bounds.width \div snapshot.width
        scaleY == bounds.height \div snapshot.height
    IN  [i \in 1..Len(ring) |->
            <<bounds.x + ring[i][1] * scaleX, bounds.y + ring[i][2] * scaleY>>]

\* C4: the polygon of a committed refined annotation is the response
\* polygon converted with the offset and scale of the descriptor captured
\* at snapshot time, wherever the live viewport has moved since.
C4_ConvertedWithSnapshotDescriptor ==
    \A p \in Pipes :
       pipe[p].outcome = "committed"
       => Vertices(pipe[p].samAnnotation.selector)
            = SnapshotRing(pipe[p].samResult, pipe[p].snapshot)

\* C5: while two pipelines are in flight, the capture of one leaves the
\* descriptor of the other unchanged, and the conversion of a response
\* reads the descriptor captured with the snapshot of its own pipeline.
C5_OwnDescriptorPerPipeline ==
    [][\A p \in Pipes : \A q \in Pipes \ {p} :
         InFlight(p)
         => /\ (pipe[q].pc = "none" /\ pipe'[q].pc = "fetch")
                 => pipe'[p].imageInfo = pipe[p].imageInfo
            /\ (InFlight(q) /\ pipe[p].pc = "json" /\ pipe'[p].pc = "done")
                 => InverseDescriptor(scriptOrder, pipe[p].imageInfo,
                                      WindowImageInfo, windowInfo # 0)
                      = pipe[p].snapshot.viewportBounds]_vars

\* C6: when the call of a pipeline rejects (network error) and the original
\* carries no explicit tag, the original kept in the store is on the Manual
\* list and not on the SAM list.
C6_NetworkErrorKeepsManual ==
    [][\A p \in Pipes :
         (pipe[p].pc = "fetch" /\ pipe'[p].pc = "done"
            /\ ExplicitTags(pipe[p].annotation.body) = <<>>)
         => /\ pipe[p].annotation \in SeqToSet(annotations'["Manual"])
            /\ pipe[p].annotation \notin SeqToSet(annotations'["SAM"])]_vars

\* Twice the area of the first ring of a candidate, by construction of
\* the candidate polygons.
KnownArea2(feature) ==
    CASE feature.coordinates[1] = Square400 -> 800
      [] feature.coordinates[1] = Square100 -> 200
      [] feature.coordinates[1] = Triangle50 -> 100

\* C7: the selected candidate is a candidate of the response, it has a
\* polygon when one of the candidates has one, and no candidate with a
\* polygon has a strictly smaller first-ring area, whatever the order and
\* the quality of the candidates; of candidates of area 400, 100 and 50
\* the one of area 50 is selected.
C7_SelectsMinimalArea ==
    output.kind = "selected"
    => LET features == input.features
           best == output.bestFeature
           polygons == {i \in 1..Len(features) : features[i].hasGeometry}
       IN  /\ \E i \in 1..Len(features) : features[i] = best
           /\ polygons # {} => best.hasGeometry
           /\ \A i \in polygons : ~(KnownArea2(features[i]) < KnownArea2(best))
           /\ {KnownArea2(features[i]) : i \in polygons} = {800, 200, 100}
                => KnownArea2(best) = 100

\* C7 witness: of candidates of area 400, 100 and 50, in this order, the
\* one of area 50 has been selected.
C7_Witness ==
    /\ output.kind = "selected"
    /\ Len(input.features) = 3
    /\ \A i \in 1..3 : input.features[i].hasGeometry
    /\ <<KnownArea2(input.features[1]), KnownArea2(input.features[2]),
         KnownArea2(input.features[3])>> = <<800, 200, 100>>
    /\ KnownArea2(output.bestFeature) = 100

\* The point of a prompt lies inside the visible region of a viewport.
InsideVisibleRegion(selector, vp) ==
    /\ vp.x <= selector.x /\ selector.x < vp.x + vp.width
    /\ vp.y <= selector.y /\ selector.y < vp.y + vp.height

\* C8: a point prompt inside the visible region is sent as
\* floor((image - offset) / downsample) in each component, with the offset
\* and the downsample of the viewport captured with the snapshot; at offset
\* (1000,2000), 500x500, downsample 2, the point (1200,2200) is sent as
\* (100,100).
C8_PointSentInCaptureSpace ==
    (output.kind = "request" /\ input.tool = "sam-point"
       /\ InsideVisibleRegion(input.selector, input.viewport))
    => /\ output.sent
       /\ output.payload.prompt = "point"
       /\ output.payload.values =
            <<(input.selector.x - input.viewport.x) \div input.viewport.downsample,
              (input.selector.y - input.viewport.y) \div input.viewport.downsample>>

\* C9: the point coordinates of every request lie within
\* [0, captureWidth-1] x [0, captureHeight-1].
C9_PointWithinCapture ==
    (output.kind = "request" /\ output.sent /\ output.payload.prompt = "point")
    => /\ 0 <= output.payload.values[1]
       /\ output.payload.values[1] <= output.imageInfo.width - 1
       /\ 0 <= output.payload.values[2]
       /\ output.payload.values[2] <= output.imageInfo.height - 1

\* C10: the bbox [x0,y0,x1,y1] of every request holds numbers with
\* 0 <= x0 < x1 <= captureWidth and 0 <= y0 < y1 <= captureHeight.
C10_BoxWithinCapture ==
    (output.kind = "request" /\ output.sent /\ output.payload.prompt = "bbox")
    => /\ output.payload.defined
       /\ 0 <= output.payload.values[1]
       /\ output.payload.values[1] < output.payload.values[3]
       /\ output.payload.values[3] <= output.imageInfo.width
       /\ 0 <= output.payload.values[2]
       /\ output.payload.values[2] < output.payload.values[4]
       /\ output.payload.values[4] <= output.imageInfo.height

\* The rings of a response converted point by point with the offset and
\* the downsample of a viewport.
ConvertedWith(coordinates, vp) ==
    [r \in 1..Len(coordinates) |->
        [i \in 1..Len(coordinates[r]) |->
            <<coordinates[r][i][1] * vp.downsample + vp.x,
              coordinates[r][i][2] * vp.downsample + vp.y>>]]

\* C11: every point of the response polygon is converted back as
\* capture * downsample + offset with the descriptor of the snapshot and
\* without clamping; at offset (1000,2000), downsample 2, the capture point
\* (100,100) becomes (1200,2200).
C11_ConvertedBackEveryPoint ==
    output.kind = "converted"
    => /\ ~output.wsiCoordinates.isNull
       /\ output.wsiCoordinates.rings =
            ConvertedWith(input.coordinates, input.viewport)

\* The distance between a converted position and the position of the shape
\* is at most the downsample, in each component.
WithinOneCapturePixel(wsiCoordinates, selector, vp) ==
    /\ ~wsiCoordinates.isNull
    /\ Abs(wsiCoordinates.rings[1][1][1] - selector.x) <= vp.downsample
    /\ Abs(wsiCoordinates.rings[1][1][2] - selector.y) <= vp.downsample

C13_SnapshotHoldsDownsample ==
    output.kind = "request"
    => /\ output.imageInfo.viewportBounds.x = input.viewport.x
       /\ output.imageInfo.viewportBounds.y = input.viewport.y
       /\ output.imageInfo.viewportBounds.width = input.viewport.width
       /\ output.imageInfo.viewportBounds.height = input.viewport.height
       /\ output.imageInfo.viewportBounds.hasDownsample
       /\ output.imageInfo.viewportBounds.downsample = input.viewport.downsample
       /\ output.imageInfo.viewportBounds.downsample > 0

\* The annotations a removal can be asked for: those of the lists, those of
\* the viewer, and one that was never added.
RemovalCandidates ==
    StoreEntries(annotations) \cup annoLayer \cup {StrayAnnotation}

\* C14: removing is idempotent: removing an annotation twice leaves the
\* store as removing it once does, and removing an id that is not in the
\* store changes nothing (no step of the removal can raise).
C14_RemovingIsIdempotent ==
    \A a \in RemovalCandidates :
        LET removed == removeAnnotationFromList(annotations, a, currentTool)
            deleted == deleteAnnotation(annotations, a, currentTool)
        IN  /\ removeAnnotationFromList(removed, a, currentTool) = removed
            /\ deleteAnnotation(deleted, a, currentTool) = deleted
            /\ a.id \notin StoreIds(annotations)
               => /\ removed = annotations
                  /\ deleted = annotations

\* removeAnnotationFromList has taken a present annotation off the lists,
\* and removing it once more changes nothing.
C14_Witness ==
    /\ output.kind = "removed"
    /\ output.wasPresent
    /\ output.annotation.id \notin StoreIds(annotations)
    /\ removeAnnotationFromList(annotations, output.annotation, currentTool)
         = annotations

\* C15: after a present annotation is removed, by the delete button of its
\* list item or by removeAnnotationFromList, no list holds its id, whatever
\* tool changes and edits happened since it was added.
C15_RemovedFromEveryList ==
    [][\A a \in StoreEntries(annotations) :
          (RemoveFromList(a) \/ DeleteFromList(a))
          => a.id \notin StoreIds(annotations')]_vars

\* C16: adding an annotation whose id is in the store overwrites: every
\* list holds at most one entry per id.
C16_OneEntryPerId ==
    \A t \in TagNames :
        \A i, j \in 1..Len(annotations[t]) :
            annotations[t][i].id = annotations[t][j].id => i = j

\* C17: the tag index never drifts: an annotation of the store is in the
\* list of tag t exactly when t is one of the tags the classification
\* derives from it now.
C17_TagIndexMatchesClassification ==
    \A a \in StoreEntries(annotations), t \in TagNames :
        a \in SeqToSet(annotations[t])
        <=> t \in SeqToSet(getAnnotationTags(a, currentTool))

\* C18: an update of an annotation whose id is not in the store leaves the
\* store unchanged (it fails, it never inserts).
C18_UpdateOfAbsentIdKeepsStore ==
    [][\A a \in annoLayer, body \in StoreBodies :
          (UpdateAnnotation(a, body) /\ a.id \notin StoreIds(annotations))
          => annotations' = annotations]_vars

\* The trimmed values of the body items with purpose 'tagging' and a
\* non-blank value, in body order.
TrimmedTagValues(annotation) ==
    LET body == IF "body" \in DOMAIN annotation THEN annotation.body ELSE <<>>
        tagging == SelectSeq(body, LAMBDA item :
                       item.purpose = "tagging" /\ Trim(item.value) # "")
    IN  [i \in 1..Len(tagging) |-> Trim(tagging[i].value)]

\* C19: explicit tags take precedence: with at least one body item of
\* purpose 'tagging' and a non-blank value, the tags are exactly the
\* trimmed values of these items in body order, whatever the id prefix,
\* samGenerated, samTool, the active tool and the other body text.
C19_ExplicitTagsTakePrecedence ==
    (output.kind = "tags" /\ TrimmedTagValues(input.annotation) # <<>>)
    => output.tags = TrimmedTagValues(input.annotation)

\* A 'sam-' annotation with samGenerated, classified while a 'sam-' tool is
\* active, whose body holds a keyword comment, a blank tag and two tags.
C19_Witness ==
    /\ output.kind = "tags"
    /\ input.tool = "sam-point"
    /\ input.annotation =
         [id |-> SamId(1), selector |-> FragmentSelector(4, 2, 2, 2),
          body |-> <<BodyItem("tagging", "Stroma"),
                     BodyItem("commenting", "Note"),
                     BodyItem("tagging", "  "),
                     BodyItem("tagging", " Tumor ")>>,
          samGenerated |-> TRUE]
    /\ output.tags = <<"Stroma", "Tumor">>

\* C20: an annotation whose id starts with 'sam-' and that has no explicit
\* tags is classified with exactly 'SAM', whatever the active tool, also
\* when its body is empty or absent.
C20_SamIdClassifiedSam ==
    (output.kind = "tags" /\ IdStartsWithSam(input.annotation.id)
       /\ TrimmedTagValues(input.annotation) = <<>>)
    => output.tags = <<"SAM">>

\* A 'sam-' annotation without a body has been classified while the drag
\* tool is active.
C20_Witness ==
    /\ output.kind = "tags"
    /\ input.tool = "drag"
    /\ input.annotation =
         [id |-> SamId(1), selector |-> FragmentSelector(4, 2, 2, 2)]
    /\ output.tags = <<"SAM">>

\* No step of the fallback chain matches: no 'sam-' id, no samGenerated,
\* no 'sam-' samTool, no 'sam-' tool active, no keyword in a body value.
NoProvenanceMatch(annotation, tool) ==
    /\ ~IdStartsWithSam(annotation.id)
    /\ "samGenerated" \notin DOMAIN annotation
    /\ "samTool" \notin DOMAIN annotation
    /\ tool \notin SamTools
    /\ \/ "body" \notin DOMAIN annotation
       \/ \A i \in 1..Len(annotation.body) :
             annotation.body[i].value \notin {"SAM mask", "Sample",
                                              "segment anything"}

\* C21 as stated: an annotation with no explicit tags for which no step of
\* the fallback chain matches is classified with the single tag
\* 'Uncategorized'.
C21_NoMatchIsUncategorized ==
    (output.kind = "tags" /\ TrimmedTagValues(input.annotation) = <<>>
       /\ NoProvenanceMatch(input.annotation, input.tool))
    => output.tags = <<"Uncategorized">>

\* C21 amended: such an annotation is classified with the single tag
\* 'Manual'.
C21_NoMatchIsManual ==
    (output.kind = "tags" /\ TrimmedTagValues(input.annotation) = <<>>
       /\ NoProvenanceMatch(input.annotation, input.tool))
    => output.tags = <<"Manual">>

\* A drawn annotation with a comment without keyword has been classified
\* while the rect tool is active.
C21_Witness ==
    /\ output.kind = "tags"
    /\ input.tool = "rect"
    /\ input.annotation =
         Annotation(UserId(1), FragmentSelector(4, 2, 2, 2),
                    <<BodyItem("commenting", "Note")>>)
    /\ output.tags = <<"Manual">>

\* C22: a pipeline is started for a created annotation exactly when, at
\* the creation event, a 'sam-' tool is active, the service is marked
\* connected and live mode is on; otherwise no request is issued and the
\* annotation is added to the store at once and unchanged.
C22_PipelineStartedIffLive ==
    [][created' = created + 1
       => LET n == created'
              live == /\ currentTool \in SamTools
                      /\ samConnected
                      /\ samLiveMode
          IN  /\ pipe'[n].pc # "none" <=> live
              /\ ~live
                 => /\ pipe' = pipe
                    /\ ~pipe'[n].sent
                    /\ \E a \in annoLayer' \ annoLayer :
                          /\ a.id = UserId(n)
                          /\ InStore(annotations', a)
                    /\ StoreIds(annotations')
                         = StoreIds(annotations) \cup {UserId(n)}]_vars

\* An annotation was drawn with a 'sam-' tool and a connected service
\* while live mode is off: it is listed and no pipeline exists.
C22_Witness ==
    /\ created = 1
    /\ currentTool = "sam-rect" /\ samConnected /\ ~samLiveMode
    /\ pipe[1].pc = "none"
    /\ UserId(1) \in StoreIds(annotations)

\* C23: every request sent carries the captured raster, multimask_output
\* = false and exactly one prompt: one foreground point, or a bbox of four
\* defined numbers; no request is sent with no prompt.
C23_RequestCarriesOnePrompt ==
    \A p \in Pipes :
        pipe[p].sent
        => /\ pipe[p].payload.b64img = pipe[p].snapshot.imageData
           /\ pipe[p].payload.multimask_output = FALSE
           /\ \/ /\ pipe[p].payload.prompt = "point"
                 /\ Len(pipe[p].payload.values) = 2
              \/ /\ pipe[p].payload.prompt = "bbox"
                 /\ Len(pipe[p].payload.values) = 4
                 /\ pipe[p].payload.defined

\* C24: on commit the refined annotation carries the tags and comment of
\* the provisional annotation: when the provisional annotation has a
\* non-empty body at the time the response arrives, the body of the
\* committed annotation equals that body.
C24_CommitCarriesProvisionalBody ==
    [][\A p \in Pipes :
          (pipe[p].pc = "json" /\ pipe'[p].outcome = "committed")
          => \A provisional \in annoLayer :
                (provisional.id = pipe[p].annotation.id
                   /\ Len(provisional.body) > 0)
                => pipe'[p].samAnnotation.body = provisional.body]_vars

\* C25: no failure of the remote service opens a blocking modal dialog: a
\* failed or rejected probe and a failed segmentation request are reported
\* through the status indicator and the log only.
C25_NoBlockingDialog == probe # "alert"

\* C26: when the drawing UI emits a delete event for an annotation that is
\* in the store, the handler removes it from the store: after the step no
\* tag list holds an entry with its id.
C26_DeleteEventRemovesFromStore ==
    [][\A a \in annoLayer :
          (DeleteAnnotation(a) /\ a.id \in StoreIds(annotations))
          => a.id \notin StoreIds(annotations')]_vars

\* The fragment value is of the literal form: its four numbers are written
\* with digits and dots.
WellFormedFragment(selector) ==
    /\ selector.type = "FragmentSelector"
    /\ selector.x >= 0 /\ selector.y >= 0
    /\ selector.w >= 0 /\ selector.h >= 0

C28_ShapeKindsAndFailures ==
    output.kind = "decoded"
    => IF "selector" \notin DOMAIN input.annotation
       THEN output.coords.type = "none" /\ ~output.sent
       ELSE LET s == input.annotation.selector IN
            /\ (s.type = "SvgSelector" /\ s.element = "circle")
               => output.coords.type = "point"
            /\ (s.type = "SvgSelector" /\ s.element = "rect")
               => output.coords.type = "box"
            /\ (s.type = "SvgSelector" /\ s.element = "polygon")
               => output.coords.type = "polygon"
            /\ s.type \notin {"SvgSelector", "FragmentSelector"}
               => (output.coords.type = "none" /\ ~output.sent)

\* C29: encoding a ring of n >= 1 points produces a closed path
\* 'M x0,y0 L x1,y1 ... Z' with exactly one vertex per input point, in the
\* input order, so that the vertices of the path are the ring.
C29_EncodesClosedPathInOrder ==
    (output.kind = "encoded" /\ Len(input.wsiCoordinates) > 0
       /\ Len(input.wsiCoordinates[1]) > 0)
    => LET ring == input.wsiCoordinates[1]
           data == output.selector.data
       IN  /\ output.selector.element = "path"
           /\ Len(data) = Len(ring) + 1
           /\ data[1].cmd = "M"
           /\ \A i \in 2..Len(ring) : data[i].cmd = "L"
           /\ data[Len(data)].cmd = "Z"
           /\ Vertices(output.selector) = ring

\* C30: exporting an annotation whose selector is an encoded path
\* 'M x0,y0 L x1,y1 ... Z' yields a document with _id equal to the
\* annotation id and one closed polyline element whose points list is
\* [[x0,y0,0],[x1,y1,0],...], one entry per path vertex in path order.
C30_ExportListsPathVertices ==
    (output.kind = "exported" /\ "selector" \in DOMAIN input.annotation
       /\ input.annotation.selector.type = "SvgSelector"
       /\ input.annotation.selector.element = "path")
    => LET vertices == Vertices(input.annotation.selector)
           document == output.document
       IN  /\ ~document.isNull
           /\ document._id = input.annotation.id
           /\ Len(document.elements) = 1
           /\ document.elements[1].type = "polyline"
           /\ document.elements[1].closed
           /\ document.elements[1].points
                = [i \in 1..Len(vertices) |->
                      <<vertices[i][1], vertices[i][2], 0>>]

\* The annotations of pipeline p that are in a store: its original, its
\* refined annotation.
StoredFor(p, store) ==
    {pipe[p].annotation.id, pipe[p].samAnnotation.id} \cap StoreIds(store)

\* C31: every pipeline that starts eventually ends committed or failed, and
\* at that point exactly one annotation, the refined one or the original
\* one, has been added to the store for it; with the event loop running no
\* annotation stays outside the store for ever waiting for the remote call.
C31_PipelineEndsWithOneStored ==
    /\ [](\A p \in Pipes :
            pipe[p].pc = "done" => Cardinality(StoredFor(p, annotations)) = 1)
    /\ \A p \in Pipes :
          InFlight(p) ~> (pipe[p].pc = "done"
                            /\ pipe[p].outcome \in {"committed", "failed"})

\* C32: the tool step of the classification fallback uses the tool that
\* was active when the annotation was created: for an annotation without
\* explicit tags a later classification (at update, at remove) returns the
\* tags of the first one, whatever tool is active by then.
C32_ClassificationIgnoresToolChanges ==
    (output.kind = "tags" /\ ExplicitTags(BodyOf(input.annotation)) = <<>>)
    => \A laterTool \in ToolChoices :
          getAnnotationTags(input.annotation, laterTool) = output.tags

\* C33: the connection flag becomes true only when a connectivity probe
\* returned a 2xx response; a probe that rejects or returns non-2xx leaves
\* the service marked disconnected; a connect action taken while connected
\* only disconnects and issues no request.
C33_ConnectedOnlyAfterGoodProbe ==
    [][/\ (~samConnected /\ samConnected') => ProbeSettled(TRUE)
       /\ ProbeSettled(FALSE)
          => (~samConnected' /\ samStatus' = "disconnected")
       /\ (samConnected /\ ConnectToSAM)
          => (~samConnected' /\ samStatus' = "disconnected"
                /\ probe' = "idle"
                /\ \A p \in Pipes : pipe'[p].sent = pipe[p].sent)]_vars

\* A probe has failed: the dialog is open and the service is marked
\* disconnected.
C33_Witness ==
    /\ probe = "alert"
    /\ ~samConnected
    /\ samStatus = "disconnected"

\* C34: whenever no segmentation request is in flight, the status indicator
\* shows 'connected' if and only if the service is marked connected; when
\* the user disconnects while a request is in flight, the indicator shows
\* 'disconnected' after that request has resolved.
C34_IndicatorMatchesFlagAtRest ==
    (\A p \in Pipes : ~InFlight(p))
    => (samStatus = "connected" <=> samConnected)

\* C35: whenever no pipeline is in flight the viewer and the store agree:
\* the ids displayed in the annotation layer are the ids in the lists of the
\* store that are not marked hidden.
C35_ViewerAgreesWithStoreAtRest ==
    (\A p \in Pipes : ~InFlight(p))
        => {a.id : a \in annoLayer} = StoreIds(annotations) \ hiddenIcons

\* C36: an annotation deleted in the drawing UI is never displayed again:
\* whatever tab switches and visibility refreshes follow, the annotation
\* layer has no annotation with its id.
C36_DeletedNeverDisplayedAgain ==
    \A a \in annoLayer : a.id \notin deletedInUI

\* C37: after a confirmed bulk delete of the folder of a tag no list of the
\* store holds an annotation that was in the list of the tag; a declined
\* confirmation leaves the store and the viewer as they were.
C37_FolderDeleteRemovesFromWholeStore ==
    [][\A tag \in TagNames :
          /\ DeleteFolderAndAnnotations(tag, TRUE)
                => \A i \in 1..Len(annotations[tag]) :
                      annotations[tag][i].id \notin StoreIds(annotations')
          /\ DeleteFolderAndAnnotations(tag, FALSE)
                => UNCHANGED <<annotations, annoLayer>>]_vars

\* C38: whenever the active tool is 'drag' or 'sam-drag', drawing is
\* disabled in the annotation layer, whatever tool selections, select,
\* update and delete events and delayed tool maintenance came before.
C38_DragToolsDisableDrawing ==
    currentTool \in {"drag", "sam-drag"} => ~drawingEnabled

\* C39: the inverse transform preserves the structure of the selected
\* polygon: the result has as many rings as the polygon, each ring has as
\* many points as the ring it comes from, and its i-th point is the
\* conversion of the i-th point of that ring.
C39_InversePreservesStructure ==
    output.kind = "converted" =>
        LET coordinates == input.coordinates
            converted == output.wsiCoordinates
            Single(coord) ==
                transformCanvasToWSICoordinates(scriptOrder, <<<<coord>>>>,
                    output.imageInfo, output.imageInfo, TRUE)
        IN  /\ ~converted.isNull
            /\ Len(converted.rings) = Len(coordinates)
            /\ \A r \in 1..Len(coordinates) :
                  /\ Len(converted.rings[r]) = Len(coordinates[r])
                  /\ \A i \in 1..Len(coordinates[r]) :
                        converted.rings[r][i]
                            = Single(coordinates[r][i]).rings[1][1]

====
